---------------------------- MODULE Spec2Model ----------------------------
(***************************************************************************)
(* KillFeedSC: the log-tail-to-event correlation engine of                 *)
(* kill_feed_local.py (Tailer thread -> asyncio line queue -> parse_loop   *)
(* -> dedup -> broadcast).                                                 *)
(*                                                                         *)
(* Strings are sequences of one-character strings, so that lower(),       *)
(* substring tests, is_entity_id() and get_ship_display_name() are         *)
(* computed the way the Python code computes them.  Time is counted in     *)
(* whole seconds.  A log line is the record of what each regular           *)
(* expression of the source captures in it (computed with Python's re on   *)
(* the text kept in the field raw).                                        *)
(***************************************************************************)
EXTENDS Integers, Sequences, FiniteSets, TLC

(* ------------------------------ bounds -------------------------------- *)
\* lines the environment writes to the log in one run
MaxLines == 3
\* lines fed to the consumer in one run of the correlator alone
MaxFeed == 4
\* lines fed to the consumer in one run with three subscribers
MaxWsFeed == 2
\* removals and truncations of the log in one run
MaxRotations == 1
\* the 500 KiB of history read at open, in lines (500 * 1024 bytes), scaled
HISTORY_WINDOW == 2
\* clock advances in one run
MaxTicks == 2
\* asyncio.Queue(maxsize=4096) of main_async, scaled
QUEUE_MAXSIZE == 2
\* deque(maxlen=64) pending_vehicle_kills, scaled
PENDING_MAXLEN == 3
\* deque(maxlen=256) recent_signatures / recent_times, scaled
RECENT_MAXLEN == 2
\* deque(maxlen=MAX_KILLS_DISPLAY) of the overlay, 10 in overlay_window.py, scaled
MAX_KILLS_DISPLAY == 2

(* ------------------------- program constants -------------------------- *)
DRIVER_TTL_SEC == 300
DEDUP_WINDOW_SEC == 5
LINK_WINDOW_SEC == 6
ATTACKER_CACHE_TTL == 15
\* the age in seconds past which _update_display removes an entry
KILL_MAX_AGE == 30

\* Python's None
None == << "<None>" >>
\* re.search found nothing
NoMatch == << "<NoMatch>" >>

(* --------------------------- string helpers --------------------------- *)
UpperChars == <<"A","B","C","D","E","F","G","H","I","J","K","L","M",
                "N","O","P","Q","R","S","T","U","V","W","X","Y","Z">>
LowerChars == <<"a","b","c","d","e","f","g","h","i","j","k","l","m",
                "n","o","p","q","r","s","t","u","v","w","x","y","z">>
Digits == {"0","1","2","3","4","5","6","7","8","9"}

IsUpper(c) == \E i \in 1..26 : UpperChars[i] = c
IsLower(c) == \E i \in 1..26 : LowerChars[i] = c
IsLetter(c) == IsUpper(c) \/ IsLower(c)
LowerChar(c) == IF IsUpper(c) THEN LowerChars[CHOOSE i \in 1..26 : UpperChars[i] = c] ELSE c
UpperChar(c) == IF IsLower(c) THEN UpperChars[CHOOSE i \in 1..26 : LowerChars[i] = c] ELSE c

\* str.lower()
lower(s) == [i \in 1..Len(s) |-> LowerChar(s[i])]

\* Python's  sub in s
Contains(sub, s) ==
  \E i \in 0..(Len(s) - Len(sub)) : SubSeq(s, i + 1, i + Len(sub)) = sub

\* str.strip() (blanks only: the tokens hold no other white space)
RECURSIVE LStrip(_)
LStrip(s) == IF s # <<>> /\ Head(s) = " " THEN LStrip(Tail(s)) ELSE s
RECURSIVE RStrip(_)
RStrip(s) == IF s # <<>> /\ s[Len(s)] = " " THEN RStrip(SubSeq(s, 1, Len(s) - 1)) ELSE s
strip(s) == RStrip(LStrip(s))

\* str.replace(c, "") for a set of characters
RECURSIVE RemoveChars(_, _)
RemoveChars(s, cs) ==
  IF s = <<>> THEN <<>>
  ELSE IF Head(s) \in cs THEN RemoveChars(Tail(s), cs)
       ELSE <<Head(s)>> \o RemoveChars(Tail(s), cs)

\* str.title() of a string
title(s) ==
  [i \in 1..Len(s) |->
     IF IsLetter(s[i])
     THEN IF i = 1 \/ ~IsLetter(s[i - 1]) THEN UpperChar(s[i]) ELSE LowerChar(s[i])
     ELSE s[i]]

\* the part of s after its last "_"  (name.split('_')[-1])
RECURSIVE LastPart(_)
LastPart(s) ==
  IF \A i \in 1..Len(s) : s[i] # "_" THEN s
  ELSE LastPart(Tail(s))

\* str.isdigit()
isdigit(s) == s # <<>> /\ \A i \in 1..Len(s) : s[i] \in Digits

(* ------------------------------ tokens -------------------------------- *)
Bob == <<"B","o","b">>
bob == <<"b","o","b">>
Alice == <<"A","l","i","c","e">>
Carol == <<"C","a","r","o","l">>
unknown == <<"u","n","k","n","o","w","n">>
ANVL_Arrow_123456789 == <<"A","N","V","L","_","A","r","r","o","w","_","1","2","3","4","5","6","7","8","9">>
AEGS_Gladius_42 == <<"A","E","G","S","_","G","l","a","d","i","u","s","_","4","2">>
Stanton == <<"S","t","a","n","t","o","n">>
laser_cannon == <<"l","a","s","e","r","_","c","a","n","n","o","n">>
Combat == <<"C","o","m","b","a","t">>
Crash == <<"C","r","a","s","h">>
Suicide == <<"S","u","i","c","i","d","e">>

SHIP_NAMES ==
  << <<<<"c","u","t","l","a","s","s">>, <<"D","r","a","k","e"," ","C","u","t","l","a","s","s">>>>,
     <<<<"a","r","r","o","w">>, <<"A","n","v","i","l"," ","A","r","r","o","w">>>>,
     <<<<"g","l","a","d","i","u","s">>, <<"A","e","g","i","s"," ","G","l","a","d","i","u","s">>>>,
     <<<<"t","i","t","a","n">>, <<"A","e","g","i","s"," ","A","v","e","n","g","e","r"," ","T","i","t","a","n">>>>,
     <<<<"f","r","e","e","l","a","n","c","e","r">>, <<"M","I","S","C"," ","F","r","e","e","l","a","n","c","e","r">>>>,
     <<<<"p","r","o","s","p","e","c","t","o","r">>, <<"M","I","S","C"," ","P","r","o","s","p","e","c","t","o","r">>>>,
     <<<<"6","0","0","i">>, <<"O","r","i","g","i","n"," ","6","0","0","i">>>>,
     <<<<"8","9","0","j">>, <<"O","r","i","g","i","n"," ","8","9","0"," ","J","u","m","p">>>>,
     <<<<"c","a","r","r","a","c","k">>, <<"A","n","v","i","l"," ","C","a","r","r","a","c","k">>>>,
     <<<<"m","o","l","e">>, <<"A","R","G","O"," ","M","O","L","E">>>>,
     <<<<"h","e","r","c","u","l","e","s">>, <<"C","r","u","s","a","d","e","r"," ","H","e","r","c","u","l","e","s">>>>,
     <<<<"v","a","l","k","y","r","i","e">>, <<"A","n","v","i","l"," ","V","a","l","k","y","r","i","e">>>>,
     <<<<"v","a","n","g","u","a","r","d">>, <<"A","e","g","i","s"," ","V","a","n","g","u","a","r","d">>>>,
     <<<<"s","a","b","r","e">>, <<"A","e","g","i","s"," ","S","a","b","r","e">>>>,
     <<<<"h","o","r","n","e","t">>, <<"A","n","v","i","l"," ","H","o","r","n","e","t">>>>,
     <<<<"b","u","c","c","a","n","e","e","r">>, <<"D","r","a","k","e"," ","B","u","c","c","a","n","e","e","r">>>>,
     <<<<"c","o","n","s","t","e","l","l","a","t","i","o","n">>, <<"R","S","I"," ","C","o","n","s","t","e","l","l","a","t","i","o","n">>>>,
     <<<<"c","a","t","e","r","p","i","l","l","a","r">>, <<"D","r","a","k","e"," ","C","a","t","e","r","p","i","l","l","a","r">>>>,
     <<<<"m","e","r","c","u","r","y">>, <<"C","r","u","s","a","d","e","r"," ","M","e","r","c","u","r","y"," ","S","t","a","r"," ","R","u","n","n","e","r">>>>,
     <<<<"m","s","r">>, <<"C","r","u","s","a","d","e","r"," ","M","e","r","c","u","r","y"," ","S","t","a","r"," ","R","u","n","n","e","r">>>>,
     <<<<"n","o","m","a","d">>, <<"C","o","n","s","o","l","i","d","a","t","e","d"," ","O","u","t","l","a","n","d"," ","N","o","m","a","d">>>>,
     <<<<"t","e","r","r","a","p","i","n">>, <<"A","n","v","i","l"," ","T","e","r","r","a","p","i","n">>>>,
     <<<<"r","e","c","l","a","i","m","e","r">>, <<"A","e","g","i","s"," ","R","e","c","l","a","i","m","e","r">>>>,
     <<<<"h","a","m","m","e","r","h","e","a","d">>, <<"A","e","g","i","s"," ","H","a","m","m","e","r","h","e","a","d">>>>,
     <<<<"i","d","r","i","s">>, <<"A","e","g","i","s"," ","I","d","r","i","s">>>>,
     <<<<"j","a","v","e","l","i","n">>, <<"A","e","g","i","s"," ","J","a","v","e","l","i","n">>>>,
     <<<<"r","e","t","a","l","i","a","t","o","r">>, <<"A","e","g","i","s"," ","R","e","t","a","l","i","a","t","o","r">>>>,
     <<<<"e","c","l","i","p","s","e">>, <<"A","e","g","i","s"," ","E","c","l","i","p","s","e">>>>,
     <<<<"b","l","a","d","e">>, <<"V","a","n","d","u","u","l"," ","B","l","a","d","e">>>>,
     <<<<"g","l","a","i","v","e">>, <<"V","a","n","d","u","u","l"," ","G","l","a","i","v","e">>>>,
     <<<<"s","c","y","t","h","e">>, <<"V","a","n","d","u","u","l"," ","S","c","y","t","h","e">>>>,
     <<<<"d","e","f","e","n","d","e","r">>, <<"B","a","n","u"," ","D","e","f","e","n","d","e","r">>>>,
     <<<<"m","e","r","c","h","a","n","t","m","a","n">>, <<"B","a","n","u"," ","M","e","r","c","h","a","n","t","m","a","n">>>>,
     <<<<"k","r","a","k","e","n">>, <<"D","r","a","k","e"," ","K","r","a","k","e","n">>>>,
     <<<<"p","o","l","a","r","i","s">>, <<"R","S","I"," ","P","o","l","a","r","i","s">>>>,
     <<<<"p","e","r","s","e","u","s">>, <<"R","S","I"," ","P","e","r","s","e","u","s">>>>,
     <<<<"c","u","t","t","e","r">>, <<"D","r","a","k","e"," ","C","u","t","t","e","r">>>>,
     <<<<"c","o","r","s","a","i","r">>, <<"D","r","a","k","e"," ","C","o","r","s","a","i","r">>>>,
     <<<<"r","e","d","e","e","m","e","r">>, <<"A","e","g","i","s"," ","R","e","d","e","e","m","e","r">>>>,
     <<<<"i","n","f","e","r","n","o">>, <<"A","e","g","i","s"," ","I","n","f","e","r","n","o">>>>,
     <<<<"i","o","n">>, <<"A","e","g","i","s"," ","I","o","n">>>>,
     <<<<"s","c","o","r","p","i","u","s">>, <<"R","S","I"," ","S","c","o","r","p","i","u","s">>>>,
     <<<<"a","r","e","s">>, <<"C","r","u","s","a","d","e","r"," ","A","r","e","s">>>>,
     <<<<"s","p","i","r","i","t">>, <<"C","r","u","s","a","d","e","r"," ","S","p","i","r","i","t">>>>,
     <<<<"c","1">>, <<"C","r","u","s","a","d","e","r"," ","C","1">>>>,
     <<<<"a","1">>, <<"C","r","u","s","a","d","e","r"," ","A","1">>>>,
     <<<<"c","2">>, <<"C","r","u","s","a","d","e","r"," ","C","2">>>>,
     <<<<"m","2">>, <<"C","r","u","s","a","d","e","r"," ","M","2">>>>,
     <<<<"a","2">>, <<"C","r","u","s","a","d","e","r"," ","A","2">>>>,
     <<<<"r","a","f","t">>, <<"A","r","g","o"," ","R","A","F","T">>>>,
     <<<<"v","u","l","t","u","r","e">>, <<"D","r","a","k","e"," ","V","u","l","t","u","r","e">>>>,
     <<<<"r","e","l","i","a","n","t">>, <<"M","I","S","C"," ","R","e","l","i","a","n","t">>>>,
     <<<<"t","a","n","a">>, <<"M","I","S","C"," ","R","e","l","i","a","n","t"," ","T","a","n","a">>>>,
     <<<<"k","o","r","e">>, <<"M","I","S","C"," ","R","e","l","i","a","n","t"," ","K","o","r","e">>>>,
     <<<<"s","e","n">>, <<"M","I","S","C"," ","R","e","l","i","a","n","t"," ","S","e","n">>>>,
     <<<<"t","a","l","o","n">>, <<"E","s","p","e","r","i","a"," ","T","a","l","o","n">>>>,
     <<<<"s","h","r","i","k","e">>, <<"E","s","p","e","r","i","a"," ","T","a","l","o","n"," ","S","h","r","i","k","e">>>>,
     <<<<"p","r","o","w","l","e","r">>, <<"E","s","p","e","r","i","a"," ","P","r","o","w","l","e","r">>>>,
     <<<<"k","h","a","r","t","u">>, <<"X","i","'","a","n"," ","K","h","a","r","t","u","-","a","l">>>>,
     <<<<"n","a","v","i","g","a","t","o","r">>, <<"B","a","n","u"," ","M","e","r","c","h","a","n","t","m","a","n"," ","N","a","v","i","g","a","t","o","r">>>>,
     <<<<"b","m","m">>, <<"B","a","n","u"," ","M","e","r","c","h","a","n","t","m","a","n">>>> >>

(* ------------------- pure functions of the source --------------------- *)
\* x or ""   for a value that may be None
OrEmpty(x) == IF x = None THEN <<>> ELSE x
\* x or None for a string
OrNone(x) == IF x = <<>> THEN None ELSE x
\* Python truth value of an optional string
Truthy(x) == x # None /\ x # <<>>

DropFirstWord(d) ==
  IF \E i \in 1..Len(d) : d[i] = " "
  THEN SubSeq(d, (CHOOSE i \in 1..Len(d) : d[i] = " " /\ \A j \in 1..(i - 1) : d[j] # " ") + 1, Len(d))
  ELSE d

get_ship_display_name(ship_name) ==
  IF ship_name = <<>> THEN <<>>
  ELSE LET n == strip(lower(ship_name))
           hits == {i \in 1..Len(SHIP_NAMES) : Contains(lower(SHIP_NAMES[i][1]), n)}
           t == title(n)
           formatted == [i \in 1..Len(n) |-> IF t[i] = "_" THEN " " ELSE t[i]]
       IN IF hits # {}
          THEN DropFirstWord(SHIP_NAMES[CHOOSE i \in hits : \A j \in hits : i <= j][2])
          ELSE IF Len(formatted) > 20
               THEN SubSeq(formatted, 1, 17) \o <<".", ".", ".">>
               ELSE formatted

\* the strings the regular expressions capture in the modelled lines
Tokens ==
  { Bob, bob, Alice, Carol, unknown, ANVL_Arrow_123456789, AEGS_Gladius_42,
    Stanton, laser_cannon, Combat, Crash, Suicide, <<>> }


\* the test with the suffix length compared to 9 instead of 8
is_entity_id_longer(name) ==
  IF name = <<>> THEN TRUE
  ELSE IF Contains(<<"_">>, name) /\ (\E i \in 1..Len(name) : name[i] \in Digits)
       THEN isdigit(LastPart(name)) /\ Len(LastPart(name)) > 9
       ELSE FALSE

is_entity_id(name) ==
  IF name = <<>> THEN TRUE
  ELSE IF Contains(<<"_">>, name) /\ (\E i \in 1..Len(name) : name[i] \in Digits)
       THEN isdigit(LastPart(name)) /\ Len(LastPart(name)) > 8
       ELSE FALSE

\* the grave accent, which cannot be written inside a TLA+ string
Backtick == "U+0060"

UnknownWords ==
  { <<"u","n","k","n","o","w","n">>, <<"i","n","c","o","n","n","u">>,
    <<"n","o","n","e">>, <<"n","/","a">> }

clean_player_name(name) ==
  IF name = <<>> THEN <<>>
  ELSE IF is_entity_id(name) THEN <<>>
  ELSE IF lower(strip(name)) \in UnknownWords THEN <<>>
  ELSE strip(RemoveChars(name, {"'", "\"", Backtick}))

\* the string functions, computed once for every token
ShipDisplayName == [v \in Tokens |-> get_ship_display_name(v)]
CleanName == [v \in Tokens |-> clean_player_name(v)]
Lower == [v \in Tokens |-> lower(v)]
Strip == [v \in Tokens |-> strip(v)]

\* the event-type decision of handle_actor_death_line
ActorDeathType(victim, killer, cause) ==
  IF Truthy(killer) /\ Truthy(victim) /\ Lower[killer] = Lower[victim] THEN "suicide"
  ELSE IF Contains(<<"s","u","i","c","i","d","e">>, Lower[OrEmpty(cause)]) THEN "suicide"
  ELSE IF ~Truthy(killer) THEN "death"
  ELSE "kill"

\* the decision with killer and victim compared as written
CorpseLinkType_case(victim, killer) ==
  IF Truthy(killer) /\ Truthy(victim) /\ killer = victim THEN "suicide"
  ELSE IF ~Truthy(killer) THEN "death"
  ELSE "kill"

\* the event-type decision of handle_corpse_line
CorpseLinkType(victim, killer) ==
  IF Truthy(killer) /\ Truthy(victim) /\ Lower[killer] = Lower[victim] THEN "suicide"
  ELSE IF ~Truthy(killer) THEN "death"
  ELSE "kill"

\* the event-type decision of handle_vehicle_destruction
VehicleDestructionType(victim, killer) ==
  IF Truthy(killer) /\ Truthy(victim) /\ Lower[killer] = Lower[victim] THEN "suicide"
  ELSE IF ~Truthy(killer) THEN "death"
  ELSE "kill"

\* the dict an event is; keys a handler does not set are None (evt.get)
Evt(type, victim, killer, victim_ship, killer_ship, cause, raw) ==
  [type |-> type, victim |-> victim, killer |-> killer,
   victim_ship |-> victim_ship, killer_ship |-> killer_ship,
   cause |-> cause, raw |-> raw, attacker |-> None, target |-> None]

HostilityEvt(attacker, target, raw) ==
  [type |-> "hostility", victim |-> None, killer |-> None,
   victim_ship |-> None, killer_ship |-> None,
   cause |-> None, raw |-> raw, attacker |-> attacker, target |-> target]

\* a signature that tells hostility events apart by target and attacker
sign_evt_parties(evt) ==
  IF evt.type = "hostility"
  THEN << evt.type, Lower[OrEmpty(evt.target)], Lower[OrEmpty(evt.attacker)] >>
  ELSE << evt.type, Lower[OrEmpty(evt.victim)], Lower[OrEmpty(evt.killer)] >>

sign_evt(evt) ==
  << evt.type, Lower[OrEmpty(evt.victim)], Lower[OrEmpty(evt.killer)] >>

(* ------------------------ the drivers dict ---------------------------- *)
\* a dict keeps insertion order: a sequence of [name, ship, last_seen]
DriverNames(drv) == {drv[i].name : i \in 1..Len(drv)}
DriverGet(drv, name) == drv[CHOOSE i \in 1..Len(drv) : drv[i].name = name]
\* the assignment with last_seen left at the epoch
DriverPut_epoch(drv, name, ship, t) ==
  IF \E i \in 1..Len(drv) : drv[i].name = name
  THEN [i \in 1..Len(drv) |->
          IF drv[i].name = name THEN [name |-> name, ship |-> ship, last_seen |-> 0] ELSE drv[i]]
  ELSE Append(drv, [name |-> name, ship |-> ship, last_seen |-> 0])

\* drivers[name] = DriverEntry(ship, last_seen)
DriverPut(drv, name, ship, t) ==
  IF name \in DriverNames(drv)
  THEN [i \in 1..Len(drv) |->
          IF drv[i].name = name THEN [name |-> name, ship |-> ship, last_seen |-> t] ELSE drv[i]]
  ELSE Append(drv, [name |-> name, ship |-> ship, last_seen |-> t])

IsStale(e, t) == t - e.last_seen > DRIVER_TTL_SEC
prune_drivers(drv, t) == SelectSeq(drv, LAMBDA e : ~IsStale(e, t))

\* for driver_name, entry in drivers.items(): if entry.ship and raw in entry.ship
ReverseLookup(drv, raw) ==
  LET hits == {i \in 1..Len(drv) : drv[i].ship # <<>> /\ Contains(raw, drv[i].ship)}
  IN IF hits = {} THEN <<>> ELSE drv[CHOOSE i \in hits : \A j \in hits : i <= j].name

get_killer_ship(drv, killer) ==
  IF killer = <<>> THEN None
  ELSE IF killer \in DriverNames(drv)
       THEN ShipDisplayName[DriverGet(drv, killer).ship]
       ELSE None


(* ------------------------------ log lines ----------------------------- *)
\* [C] Bob entered entity ANVL_Arrow_123456789 as driver
L_drv ==
  [raw |-> "[C] Bob entered entity ANVL_Arrow_123456789 as driver",
   drv |-> <<[driver |-> Bob, ship |-> ANVL_Arrow_123456789]>>,
   corpse |-> <<>>,
   corpse_player |-> <<>>,
   vd |-> <<>>,
   sc |-> <<>>,
   ad |-> <<>>,
   host |-> <<>>]

\* Corpse: Alice was killed by Bob
L_corpse_Alice ==
  [raw |-> "Corpse: Alice was killed by Bob",
   drv |-> <<>>,
   corpse |-> <<Alice>>,
   corpse_player |-> <<>>,
   vd |-> <<>>,
   sc |-> <<>>,
   ad |-> <<[victim |-> Alice, killer |-> Bob, cause |-> None]>>,
   host |-> <<>>]

\* Corpse: bob was killed by Alice
L_corpse_bob ==
  [raw |-> "Corpse: bob was killed by Alice",
   drv |-> <<>>,
   corpse |-> <<bob>>,
   corpse_player |-> <<>>,
   vd |-> <<>>,
   sc |-> <<>>,
   ad |-> <<[victim |-> bob, killer |-> Alice, cause |-> None]>>,
   host |-> <<>>]

\* <[ActorState] Corpse> Player 'unknown' <remote client>
L_corpseP_unk ==
  [raw |-> "<[ActorState] Corpse> Player 'unknown' <remote client>",
   drv |-> <<>>,
   corpse |-> <<>>,
   corpse_player |-> <<unknown>>,
   vd |-> <<>>,
   sc |-> <<>>,
   ad |-> <<>>,
   host |-> <<>>]

\* <[ActorState] Corpse> Player 'Alice' <remote client>
L_corpseP_Alice ==
  [raw |-> "<[ActorState] Corpse> Player 'Alice' <remote client>",
   drv |-> <<>>,
   corpse |-> <<>>,
   corpse_player |-> <<Alice>>,
   vd |-> <<>>,
   sc |-> <<>>,
   ad |-> <<>>,
   host |-> <<>>]

\* <[ActorState] Corpse> Player 'bob' <remote client>
L_corpseP_bob ==
  [raw |-> "<[ActorState] Corpse> Player 'bob' <remote client>",
   drv |-> <<>>,
   corpse |-> <<>>,
   corpse_player |-> <<bob>>,
   vd |-> <<>>,
   sc |-> <<>>,
   ad |-> <<>>,
   host |-> <<>>]

\* <Vehicle Destruction> Vehicle 'ANVL_Arrow_123456789' driven by 'unknown' caused by 'Bob' with 'Combat'
L_vd_unk_Bob ==
  [raw |-> "<Vehicle Destruction> Vehicle 'ANVL_Arrow_123456789' driven by 'unknown' caused by 'Bob' with 'Combat'",
   drv |-> <<>>,
   corpse |-> <<>>,
   corpse_player |-> <<>>,
   vd |-> <<[vehicle |-> ANVL_Arrow_123456789, driver |-> unknown, causer |-> Bob, damage_type |-> Combat]>>,
   sc |-> <<>>,
   ad |-> <<>>,
   host |-> <<>>]

\* <Vehicle Destruction> Vehicle 'AEGS_Gladius_42' driven by 'unknown' caused by 'unknown' with 'Crash'
L_vd_unk_unk ==
  [raw |-> "<Vehicle Destruction> Vehicle 'AEGS_Gladius_42' driven by 'unknown' caused by 'unknown' with 'Crash'",
   drv |-> <<>>,
   corpse |-> <<>>,
   corpse_player |-> <<>>,
   vd |-> <<[vehicle |-> AEGS_Gladius_42, driver |-> unknown, causer |-> unknown, damage_type |-> Crash]>>,
   sc |-> <<>>,
   ad |-> <<>>,
   host |-> <<>>]

\* <Vehicle Destruction> Vehicle 'ANVL_Arrow_123456789' driven by 'Alice' caused by 'Bob' with 'Combat'
L_vd_Alice_Bob ==
  [raw |-> "<Vehicle Destruction> Vehicle 'ANVL_Arrow_123456789' driven by 'Alice' caused by 'Bob' with 'Combat'",
   drv |-> <<>>,
   corpse |-> <<>>,
   corpse_player |-> <<>>,
   vd |-> <<[vehicle |-> ANVL_Arrow_123456789, driver |-> Alice, causer |-> Bob, damage_type |-> Combat]>>,
   sc |-> <<>>,
   ad |-> <<>>,
   host |-> <<>>]

\* <Vehicle Destruction> Vehicle 'AEGS_Gladius_42' driven by 'Bob' caused by 'bob' with 'Combat'
L_vd_Bob_bob ==
  [raw |-> "<Vehicle Destruction> Vehicle 'AEGS_Gladius_42' driven by 'Bob' caused by 'bob' with 'Combat'",
   drv |-> <<>>,
   corpse |-> <<>>,
   corpse_player |-> <<>>,
   vd |-> <<[vehicle |-> AEGS_Gladius_42, driver |-> Bob, causer |-> bob, damage_type |-> Combat]>>,
   sc |-> <<>>,
   ad |-> <<>>,
   host |-> <<>>]

\* <Actor Death> 'Alice' in zone 'ANVL_Arrow_123456789' killed by 'Bob' using 'laser_cannon' with damage type 'Combat'
L_ad_sc ==
  [raw |-> "<Actor Death> 'Alice' in zone 'ANVL_Arrow_123456789' killed by 'Bob' using 'laser_cannon' with damage type 'Combat'",
   drv |-> <<>>,
   corpse |-> <<>>,
   corpse_player |-> <<>>,
   vd |-> <<>>,
   sc |-> <<[victim |-> Alice, victim_vehicle |-> ANVL_Arrow_123456789, killer |-> Bob, weapon |-> laser_cannon, damage_type |-> Combat]>>,
   ad |-> <<[victim |-> <<"'","A","N","V","L","_","A","r","r","o","w","_","1","2","3","4","5","6","7","8","9","'">>, killer |-> <<"'","B","o","b","'">>, cause |-> <<"u","s","i","n","g">>]>>,
   host |-> <<>>]

\* <Actor Death> 'ANVL_Arrow_123456789' in zone 'Stanton' killed by 'Alice' using 'laser_cannon' with damage type 'Combat'
L_ad_ent ==
  [raw |-> "<Actor Death> 'ANVL_Arrow_123456789' in zone 'Stanton' killed by 'Alice' using 'laser_cannon' with damage type 'Combat'",
   drv |-> <<>>,
   corpse |-> <<>>,
   corpse_player |-> <<>>,
   vd |-> <<>>,
   sc |-> <<[victim |-> ANVL_Arrow_123456789, victim_vehicle |-> Stanton, killer |-> Alice, weapon |-> laser_cannon, damage_type |-> Combat]>>,
   ad |-> <<[victim |-> <<"'","S","t","a","n","t","o","n","'">>, killer |-> <<"'","A","l","i","c","e","'">>, cause |-> <<"u","s","i","n","g">>]>>,
   host |-> <<>>]

\* <Actor Death> 'Bob' in zone 'Stanton' killed by 'bob' using 'laser_cannon' with damage type 'Crash'
L_ad_self ==
  [raw |-> "<Actor Death> 'Bob' in zone 'Stanton' killed by 'bob' using 'laser_cannon' with damage type 'Crash'",
   drv |-> <<>>,
   corpse |-> <<>>,
   corpse_player |-> <<>>,
   vd |-> <<>>,
   sc |-> <<[victim |-> Bob, victim_vehicle |-> Stanton, killer |-> bob, weapon |-> laser_cannon, damage_type |-> Crash]>>,
   ad |-> <<[victim |-> <<"'","S","t","a","n","t","o","n","'">>, killer |-> <<"'","b","o","b","'">>, cause |-> <<"u","s","i","n","g">>]>>,
   host |-> <<>>]

\* Alice was killed by Bob
L_ad_alt ==
  [raw |-> "Alice was killed by Bob",
   drv |-> <<>>,
   corpse |-> <<>>,
   corpse_player |-> <<>>,
   vd |-> <<>>,
   sc |-> <<>>,
   ad |-> <<[victim |-> Alice, killer |-> Bob, cause |-> None]>>,
   host |-> <<>>]

\* <Debug Hostility Events> FROM Bob TO ANVL_Arrow_123456789 child Alice
L_host ==
  [raw |-> "<Debug Hostility Events> FROM Bob TO ANVL_Arrow_123456789 child Alice",
   drv |-> <<>>,
   corpse |-> <<>>,
   corpse_player |-> <<>>,
   vd |-> <<>>,
   sc |-> <<>>,
   ad |-> <<>>,
   host |-> <<[attacker |-> Bob, target_vehicle |-> ANVL_Arrow_123456789, target_pilot |-> Alice]>>]

\* Client: Respawn
L_other ==
  [raw |-> "Client: Respawn",
   drv |-> <<>>,
   corpse |-> <<>>,
   corpse_player |-> <<>>,
   vd |-> <<>>,
   sc |-> <<>>,
   ad |-> <<>>,
   host |-> <<>>]

\* Corpse: ANVL_Arrow_123456789 was killed by Alice
L_corpse_ent ==
  [raw |-> "Corpse: ANVL_Arrow_123456789 was killed by Alice",
   drv |-> <<>>,
   corpse |-> <<ANVL_Arrow_123456789>>,
   corpse_player |-> <<>>,
   vd |-> <<>>,
   sc |-> <<>>,
   ad |-> <<[victim |-> ANVL_Arrow_123456789, killer |-> Alice, cause |-> None]>>,
   host |-> <<>>]

\* [C] Alice entered entity AEGS_Gladius_42 as driver
L_drv_Alice ==
  [raw |-> "[C] Alice entered entity AEGS_Gladius_42 as driver",
   drv |-> <<[driver |-> Alice, ship |-> AEGS_Gladius_42]>>,
   corpse |-> <<>>,
   corpse_player |-> <<>>,
   vd |-> <<>>,
   sc |-> <<>>,
   ad |-> <<>>,
   host |-> <<>>]

\* <Debug Hostility Events> unknown killed by Carol FROM Bob TO ANVL_Arrow_123456789 child Alice
L_host_ad ==
  [raw |-> "<Debug Hostility Events> unknown killed by Carol FROM Bob TO ANVL_Arrow_123456789 child Alice",
   drv |-> <<>>,
   corpse |-> <<>>,
   corpse_player |-> <<>>,
   vd |-> <<>>,
   sc |-> <<>>,
   ad |-> <<[victim |-> unknown, killer |-> Carol, cause |-> None]>>,
   host |-> <<[attacker |-> Bob, target_vehicle |-> ANVL_Arrow_123456789, target_pilot |-> Alice]>>]

\* <Vehicle Destruction> Vehicle 'ANVL_Arrow_123456789' driven by 'Alice' caused by 'Bob' with 'Suicide'
L_vd_Alice_Bob_su ==
  [raw |-> "<Vehicle Destruction> Vehicle 'ANVL_Arrow_123456789' driven by 'Alice' caused by 'Bob' with 'Suicide'",
   drv |-> <<>>,
   corpse |-> <<>>,
   corpse_player |-> <<>>,
   vd |-> <<[vehicle |-> ANVL_Arrow_123456789, driver |-> Alice, causer |-> Bob, damage_type |-> Suicide]>>,
   sc |-> <<>>,
   ad |-> <<>>,
   host |-> <<>>]

\* <Vehicle Destruction> Vehicle 'ANVL_Arrow_123456789' driven by 'unknown' caused by 'Bob' with 'Suicide'
L_vd_unk_Bob_su ==
  [raw |-> "<Vehicle Destruction> Vehicle 'ANVL_Arrow_123456789' driven by 'unknown' caused by 'Bob' with 'Suicide'",
   drv |-> <<>>,
   corpse |-> <<>>,
   corpse_player |-> <<>>,
   vd |-> <<[vehicle |-> ANVL_Arrow_123456789, driver |-> unknown, causer |-> Bob, damage_type |-> Suicide]>>,
   sc |-> <<>>,
   ad |-> <<>>,
   host |-> <<>>]

\* <Actor Death> 'Alice' in zone 'ANVL_Arrow_123456789' killed by 'Bob' using 'laser_cannon' with damage type 'Suicide'
L_ad_su ==
  [raw |-> "<Actor Death> 'Alice' in zone 'ANVL_Arrow_123456789' killed by 'Bob' using 'laser_cannon' with damage type 'Suicide'",
   drv |-> <<>>,
   corpse |-> <<>>,
   corpse_player |-> <<>>,
   vd |-> <<>>,
   sc |-> <<[victim |-> Alice, victim_vehicle |-> ANVL_Arrow_123456789, killer |-> Bob, weapon |-> laser_cannon, damage_type |-> Suicide]>>,
   ad |-> <<[victim |-> <<"'","A","N","V","L","_","A","r","r","o","w","_","1","2","3","4","5","6","7","8","9","'">>, killer |-> <<"'","B","o","b","'">>, cause |-> <<"u","s","i","n","g">>]>>,
   host |-> <<>>]

\* <Debug Hostility Events> FROM ANVL_Arrow_123456789 TO AEGS_Gladius_42 child Alice
L_host_ent ==
  [raw |-> "<Debug Hostility Events> FROM ANVL_Arrow_123456789 TO AEGS_Gladius_42 child Alice",
   drv |-> <<>>,
   corpse |-> <<>>,
   corpse_player |-> <<>>,
   vd |-> <<>>,
   sc |-> <<>>,
   ad |-> <<>>,
   host |-> <<[attacker |-> ANVL_Arrow_123456789, target_vehicle |-> AEGS_Gladius_42, target_pilot |-> Alice]>>]

\* <Debug Hostility Events> FROM Carol TO AEGS_Gladius_42 child Bob
L_host_Carol ==
  [raw |-> "<Debug Hostility Events> FROM Carol TO AEGS_Gladius_42 child Bob",
   drv |-> <<>>,
   corpse |-> <<>>,
   corpse_player |-> <<>>,
   vd |-> <<>>,
   sc |-> <<>>,
   ad |-> <<>>,
   host |-> <<[attacker |-> Carol, target_vehicle |-> AEGS_Gladius_42, target_pilot |-> Bob]>>]

(* ---------------------------- configuration --------------------------- *)
\* the documented defaults and the range of an acceptable port
HTTP_PORT_DEFAULT == 8080
WS_PORT_DEFAULT == 8765
PORT_MIN == 1024
PORT_MAX == 65535

\* an option of config.ini: absent, or present with its text
Absent == [set |-> FALSE, text |-> <<>>]
Option(t) == [set |-> TRUE, text |-> t]

\* the texts tried for HTTP_PORT and WEBSOCKET_PORT
PortTexts ==
  {<<"8","0","8","0">>,
   <<"9","1","0","0">>,
   <<"1","0","2","4">>,
   <<"6","5","5","3","5">>,
   <<"1","0","2","3">>,
   <<"6","5","5","3","6">>,
   <<"a","b","c">>,
   <<>>,
   <<"5","0","%">>,
   <<" ","9","0","0","0"," ">>,
   <<"8","_","0","8","1">>}
ConfigFiles == [http : {Absent} \cup {Option(t) : t \in PortTexts},
                ws : {Absent} \cup {Option(t) : t \in PortTexts}]
NoConfigFile == [http |-> Absent, ws |-> Absent]

\* ConfigParser's interpolation of a value: "%%" stands for "%"; any other
\* use of "%" raises (a syntax error, or a reference to an option that the
\* files above never define)
RECURSIVE Interpolate(_)
Interpolate(t) ==
  IF t = <<>> THEN [ok |-> TRUE, text |-> <<>>]
  ELSE IF Head(t) # "%"
  THEN [ok |-> Interpolate(Tail(t)).ok, text |-> <<Head(t)>> \o Interpolate(Tail(t)).text]
  ELSE IF Len(t) >= 2 /\ t[2] = "%"
  THEN [ok |-> Interpolate(SubSeq(t, 3, Len(t))).ok,
        text |-> <<"%">> \o Interpolate(SubSeq(t, 3, Len(t))).text]
  ELSE [ok |-> FALSE, text |-> <<>>]

DigitChars == <<"0","1","2","3","4","5","6","7","8","9">>
DigitVal(c) == (CHOOSE i \in 1..10 : DigitChars[i] = c) - 1

\* the value of an integer literal's digits, underscores skipped
RECURSIVE DigitsValue(_)
DigitsValue(s) ==
  IF s = <<>> THEN 0
  ELSE IF s[Len(s)] = "_" THEN DigitsValue(SubSeq(s, 1, Len(s) - 1))
  ELSE 10 * DigitsValue(SubSeq(s, 1, Len(s) - 1)) + DigitVal(s[Len(s)])

\* int(text): blanks around, an optional sign, digits with single underscores
\* between them; anything else is a ValueError
IntBody(s) ==
  /\ s # <<>>
  /\ s[1] \in Digits /\ s[Len(s)] \in Digits
  /\ \A i \in 1..Len(s) : s[i] \in Digits \cup {"_"}
  /\ \A i \in 1..(Len(s) - 1) : ~(s[i] = "_" /\ s[i + 1] = "_")
Unsigned(s) == IF s # <<>> /\ Head(s) \in {"+", "-"} THEN Tail(s) ELSE s
ParseInt(t) ==
  IF IntBody(Unsigned(strip(t)))
  THEN [ok |-> TRUE,
        val |-> IF Head(strip(t)) = "-" THEN 0 - DigitsValue(Unsigned(strip(t)))
                ELSE DigitsValue(Unsigned(strip(t)))]
  ELSE [ok |-> FALSE, val |-> 0]

\* _cfg.getint(section, option, fallback=...): the fallback stands in for an
\* absent option only
getint(opt, fallback) ==
  IF ~opt.set THEN [kind |-> "int", val |-> fallback]
  ELSE IF ~Interpolate(opt.text).ok THEN [kind |-> "InterpolationError", val |-> 0]
  ELSE IF ~ParseInt(Interpolate(opt.text).text).ok THEN [kind |-> "ValueError", val |-> 0]
  ELSE [kind |-> "int", val |-> ParseInt(Interpolate(opt.text).text).val]

\* _validate_port: raises ValueError outside the range
PortInRange(port) == ~(port < PORT_MIN \/ port > PORT_MAX)

AllowedHosts == {"127.0.0.1", "localhost", "0.0.0.0"}
Hosts == AllowedHosts \cup {"192.168.1.10", "example.org", ""}
_validate_host(host) == IF host \notin AllowedHosts THEN "127.0.0.1" ELSE host

\* the configuration globals: not yet set, set, or never set because the
\* module's import ended with an uncaught exception
Config(state, http_host, http_port, ws_host, ws_port, log_path) ==
  [state |-> state, HTTP_HOST |-> http_host, HTTP_PORT |-> http_port,
   WS_HOST |-> ws_host, WS_PORT |-> ws_port, LOG_PATH |-> log_path]
Unset == Config("unset", "", 0, "", 0, "")
Aborted == Config("aborted", "", 0, "", 0, "")
Defaults ==
  Config("set", "127.0.0.1", HTTP_PORT_DEFAULT, "127.0.0.1", WS_PORT_DEFAULT, "<default>")

\* what one port option does to the try block: "ok", "ValueError" (caught),
\* or "InterpolationError" (not a ValueError, not caught)
PortOutcome(opt, fallback) ==
  IF getint(opt, fallback).kind # "int" THEN getint(opt, fallback).kind
  ELSE IF PortInRange(getint(opt, fallback).val) THEN "ok" ELSE "ValueError"

\* the module's configuration block, with no GAME_LOG_PATH in the file: HTTP
\* port first, then WebSocket port, then the hosts
Configure(ini) ==
  IF PortOutcome(ini.http, HTTP_PORT_DEFAULT) = "InterpolationError" THEN Aborted
  ELSE IF PortOutcome(ini.http, HTTP_PORT_DEFAULT) = "ValueError" THEN Defaults
  ELSE IF PortOutcome(ini.ws, WS_PORT_DEFAULT) = "InterpolationError" THEN Aborted
  ELSE IF PortOutcome(ini.ws, WS_PORT_DEFAULT) = "ValueError" THEN Defaults
  ELSE Config("set", _validate_host("127.0.0.1"), getint(ini.http, HTTP_PORT_DEFAULT).val,
              _validate_host("127.0.0.1"), getint(ini.ws, WS_PORT_DEFAULT).val, "<default>")


Lines ==
  { L_drv, L_corpse_Alice, L_corpse_bob, L_corpseP_Alice, L_corpseP_bob, L_corpseP_unk,
    L_vd_unk_Bob, L_vd_unk_unk, L_vd_Alice_Bob, L_vd_Bob_bob,
    L_ad_sc, L_ad_ent, L_ad_self, L_ad_alt, L_host, L_other,
    L_corpse_ent, L_drv_Alice, L_host_ad, L_vd_Alice_Bob_su, L_vd_unk_Bob_su, L_ad_su,
    L_host_ent, L_host_Carol }

\* the WebSocket connections that may be made in one run
Clients == {"c1", "c2", "c3"}

(* ------------------------------ state --------------------------------- *)
VARIABLES
  file,                  \* the log file: the lines written to it so far
  file_exists,           \* os.path.exists(path)
  rotations,             \* removals and truncations of the log so far
  stop_flag,             \* TailThread.stop_flag
  tail_pc,               \* TailThread.run: "start", "iter" (top of an iteration),
                         \* "slept" (after the 5 s wait for a missing file), "done"
  tail_f,                \* TailThread.run: "closed" while f is None, "open", or
                         \* "detached" when f is on a file that the path no longer names
  tail_ino,              \* the unread lines of the file a detached f is on
  tail_last,             \* history: what the Tailer's last iteration other than an idle poll did
  after_stop,            \* history: iterations begun with stop_flag set
  config_ini,            \* config.ini: the texts of HTTP_PORT and WEBSOCKET_PORT
  cfg,                   \* the module's configuration globals, once set
  tail_pos,              \* lines of the file the Tailer's handle has passed
  last_size,             \* TailThread.run: last_size (counted in lines)
  cbq,                   \* callbacks queued by call_soon_threadsafe, in order
  line_q,                \* main_async: line_q
  now,                   \* time.time()
  ticks,                 \* clock advances so far
  drivers,
  recent_signatures,
  recent_times,
  last_corpse,
  pending_vehicle_kills,
  recent_attackers,
  WS_CLIENTS,
  ws_pc,                 \* ws_handler of each connection: "idle", "hello" (sending the greeting), "recv", "closed"
  conn,                  \* each connection: "open" or "dead"
  inbox,                 \* what each connection has received
  sent,                  \* history: every ws.send that was started
  ws_lock,               \* WS_LOCK: "free" or the task that holds it
  ws_log,                \* history: the accesses to WS_CLIENTS, each with whether its task held WS_LOCK
  failed,                \* history: ids of the lines whose processing raised
  pl,                    \* parse_loop: waiting in line_q.get() or inside broadcast's send loop
  read_lines,            \* history: the lines the Tailer passed to call_soon_threadsafe
  dropped,               \* history: queue entries whose put_nowait raised QueueFull
  handled,               \* history: ids of the lines parse_loop took, in order
  bcast,                 \* history: every call of broadcast
  drv_reads,             \* history: the reads of drivers made for the last line
  evicted                \* history: pending entries pushed out by the deque's maxlen

VARIABLES
  kills,                 \* the overlay's self.kills: entries, newest at index 1
  overlay                \* the overlay process: running, connected, player_name,
                         \* the refresh's position and current_time, the
                         \* number of messages received, the type of the last
                         \* and the number of calls of add_kill

ovVars == <<kills, overlay>>
cfgVars == <<config_ini, cfg>>
tailCtl == <<file_exists, rotations, stop_flag, tail_pc, tail_ino, tail_last, after_stop>>
tailVars == <<file, tail_f, tail_pos, last_size, cbq, read_lines, dropped, tailCtl>>
corrVars == <<drivers, recent_signatures, recent_times, last_corpse,
              pending_vehicle_kills, recent_attackers, drv_reads, evicted, failed>>
wsVars == <<WS_CLIENTS, ws_pc, conn, inbox, sent, ws_lock, ws_log>>
vars == <<file, tail_f, tail_pos, last_size, cbq, line_q, now, ticks, drivers,
          recent_signatures, recent_times, last_corpse, pending_vehicle_kills,
          recent_attackers, WS_CLIENTS, ws_pc, conn, inbox, sent, pl, read_lines,
          dropped, handled, bcast, drv_reads, evicted, tailCtl, cfgVars,
          ws_lock, ws_log, failed, ovVars>>

Idle ==
  [pc |-> "get", k |-> 0, snap |-> {}, clients |-> {}, to_drop |-> {},
   evt |-> <<>>, remove |-> <<>>]

\* KillFeedOverlay.__init__: running, not yet connected, no player name, the
\* first _update_display done
OverlayStarted ==
  [running |-> TRUE, connected |-> FALSE, player_name |-> "", pc |-> "idle",
   current_time |-> 0, received |-> 0, last |-> "", added |-> 0]

\* the state after construction, the configuration aside
Started ==
  /\ file = <<>>
  /\ file_exists = TRUE
  /\ rotations = 0
  /\ stop_flag = FALSE
  /\ tail_pc = "start"
  /\ tail_f = "closed"
  /\ tail_ino = <<>>
  /\ tail_last = "none"
  /\ after_stop = 0
  /\ tail_pos = 0
  /\ last_size = 0
  /\ cbq = <<>>
  /\ line_q = <<>>
  /\ now = 0
  /\ ticks = 0
  /\ drivers = <<>>
  /\ recent_signatures = <<>>
  /\ recent_times = <<>>
  /\ last_corpse = <<>>
  /\ pending_vehicle_kills = <<>>
  /\ recent_attackers = <<>>
  /\ WS_CLIENTS = {}
  /\ ws_pc = [c \in Clients |-> "idle"]
  /\ conn = [c \in Clients |-> "open"]
  /\ inbox = [c \in Clients |-> <<>>]
  /\ sent = {}
  /\ ws_lock = "free"
  /\ ws_log = {}
  /\ failed = <<>>
  /\ pl = Idle
  /\ read_lines = <<>>
  /\ dropped = <<>>
  /\ handled = <<>>
  /\ bcast = <<>>
  /\ drv_reads = {}
  /\ evicted = <<>>
  /\ kills = <<>>
  /\ overlay = OverlayStarted

\* the program started without a config.ini
Init ==
  /\ Started
  /\ config_ini = NoConfigFile
  /\ cfg = Configure(NoConfigFile)

(* ---------------------------- the handlers ---------------------------- *)
\* what one handler call did: the caches after it, the event it passes to
\* broadcast (at most one), the pending entry it removes after broadcast
\* returns, and the reads of drivers it made
NoChange ==
  [handled |-> FALSE, drivers |-> drivers, pending |-> pending_vehicle_kills,
   last_corpse |-> last_corpse, attackers |-> recent_attackers,
   evt |-> <<>>, remove |-> <<>>, reads |-> {}, evicted |-> <<>>]

StaleNames(drv, t) == {drv[i].name : i \in {j \in 1..Len(drv) : IsStale(drv[j], t)}}
Read(site, drv) == [site |-> site, stale |-> StaleNames(drv, now)]

extract_driver(line) ==
  IF line.drv # <<>> /\ Strip[line.drv[1].driver] # <<>>
  THEN [NoChange EXCEPT !.handled = TRUE,
          !.drivers = DriverPut(drivers, Strip[line.drv[1].driver], Strip[line.drv[1].ship], now)]
  ELSE NoChange

\* append to a deque that has no maxlen
DequeAppend_unbounded(q, x, maxlen) == Append(q, x)

\* deque.append with maxlen
DequeAppend(q, x, maxlen) ==
  IF Len(q) >= maxlen THEN Append(Tail(q), x) ELSE Append(q, x)

\* the used entry left in the queue
RemoveFirst_forgotten(q, x) == q

\* deque.remove(x): the first element equal to x
RemoveFirst(q, x) ==
  IF \E i \in 1..Len(q) : q[i] = x
  THEN LET k == CHOOSE i \in 1..Len(q) : q[i] = x /\ \A j \in 1..(i - 1) : q[j] # x
       IN SubSeq(q, 1, k - 1) \o SubSeq(q, k + 1, Len(q))
  ELSE q

\* the link test without its window
InLinkWindow_always(ts, t) == TRUE

\* now - ts <= LINK_WINDOW_SEC
InLinkWindow(ts, t) == t - ts <= LINK_WINDOW_SEC

\* the scan of pending_vehicle_kills of handle_corpse_line, the same code
\* for a RE_CORPSE victim and for a RE_CORPSE_PLAYER player
CorpseLink(victim) ==
  LET pend == pending_vehicle_kills
      hits == {i \in 1..Len(pend) : InLinkWindow(pend[i].ts, now)}
  IN IF hits # {}
     THEN LET p == pend[CHOOSE i \in hits : \A j \in hits : j <= i]
              evt == Evt(CorpseLinkType(victim, p.killer), victim, OrNone(p.killer),
                         ShipDisplayName[p.vehicle], get_killer_ship(drivers, p.killer),
                         p.damage_type, p.raw)
          IN [NoChange EXCEPT !.handled = TRUE, !.evt = <<evt>>, !.remove = <<p>>,
                !.reads = IF p.killer # <<>> THEN {Read("get_killer_ship", drivers)} ELSE {}]
     ELSE [NoChange EXCEPT !.handled = TRUE,
             !.last_corpse = << [t |-> now, victim |-> victim] >>]

handle_corpse_line(line) ==
  IF line.corpse # <<>> /\ CleanName[line.corpse[1]] # <<>>
  THEN CorpseLink(CleanName[line.corpse[1]])
  ELSE IF line.corpse_player # <<>> /\ CleanName[line.corpse_player[1]] # <<>>
       THEN CorpseLink(CleanName[line.corpse_player[1]])
       ELSE NoChange

\* the cache with nothing taken out
PruneAttackers_never(att, t) == att

\* expired = [k ... if now - ts > ATTACKER_CACHE_TTL]; pop each
PruneAttackers(att, t) ==
  SelectSeq(att, LAMBDA e : ~(t - e.ts > ATTACKER_CACHE_TTL))

\* the driver test with no driver held unresolved
DriverUnresolved_never(driver, driver_raw) == FALSE

\* if not driver or driver_raw.lower() == 'unknown'
DriverUnresolved(driver, driver_raw) == driver = <<>> \/ Lower[driver_raw] = unknown

handle_vehicle_destruction(line) ==
  IF line.vd = <<>> THEN NoChange
  ELSE LET m == line.vd[1]
           driver == CleanName[m.driver]
           killer == CleanName[m.causer]
           att == PruneAttackers(recent_attackers, now)
       IN IF DriverUnresolved(driver, m.driver)
          THEN LET entry == [ts |-> now, killer |-> killer, vehicle |-> m.vehicle,
                             damage_type |-> m.damage_type, raw |-> line.raw]
               IN [NoChange EXCEPT !.handled = TRUE, !.attackers = att,
                     !.pending = DequeAppend(pending_vehicle_kills, entry, PENDING_MAXLEN),
                     !.evicted = IF Len(pending_vehicle_kills) >= PENDING_MAXLEN
                                 THEN <<Head(pending_vehicle_kills)>> ELSE <<>>]
          ELSE [NoChange EXCEPT !.handled = TRUE, !.attackers = att,
                  !.evt = << Evt(VehicleDestructionType(driver, killer), driver, OrNone(killer),
                                 ShipDisplayName[m.vehicle], get_killer_ship(drivers, killer),
                                 m.damage_type, line.raw) >>,
                  !.reads = IF killer # <<>> THEN {Read("get_killer_ship", drivers)} ELSE {}]

\* the victim test with nothing rejected
VictimMissing_never(victim) == FALSE

\* if not victim: return False
VictimMissing(victim) == victim = <<>>

\* the victim's ship taken from the drivers map before the zone
ActorVictimShip_drivers(victim_vehicle_raw, drv, victim) ==
  IF victim \in DriverNames(drv)
  THEN ShipDisplayName[DriverGet(drv, victim).ship]
  ELSE IF victim_vehicle_raw # <<>>
       THEN ShipDisplayName[victim_vehicle_raw]
       ELSE None

\* victim_ship of handle_actor_death_line: the zone of the <Actor Death>
\* format if there is one, else the victim's entry in drivers
ActorVictimShip(victim_vehicle_raw, drv, victim) ==
  IF victim_vehicle_raw # <<>>
  THEN ShipDisplayName[victim_vehicle_raw]
  ELSE IF victim \in DriverNames(drv)
       THEN ShipDisplayName[DriverGet(drv, victim).ship]
       ELSE None

handle_actor_death_line(line) ==
  IF line.sc = <<>> /\ line.ad = <<>> THEN NoChange
  ELSE LET is_sc == line.sc # <<>>
           m == IF is_sc THEN line.sc[1] ELSE line.ad[1]
           victim_raw == Strip[m.victim]
           killer_raw == Strip[m.killer]
           cause == IF is_sc THEN Strip[m.damage_type]
                    ELSE IF m.cause = None THEN None ELSE Strip[m.cause]
           victim0 == CleanName[victim_raw]
           killer0 == OrNone(CleanName[killer_raw])
           look_v == victim0 = <<>> /\ victim_raw # <<>>
           look_k == killer0 = None /\ killer_raw # <<>>
           victim == IF look_v THEN ReverseLookup(drivers, victim_raw) ELSE victim0
           killer == IF look_k THEN OrNone(ReverseLookup(drivers, killer_raw)) ELSE killer0
           rev == IF look_v \/ look_k THEN {Read("reverse_lookup", drivers)} ELSE {}
       IN IF VictimMissing(victim)
          THEN [NoChange EXCEPT !.reads = rev]
          ELSE LET drv == prune_drivers(drivers, now)
                   victim_ship ==
                     ActorVictimShip(IF is_sc THEN Strip[m.victim_vehicle] ELSE <<>>, drv, victim)
                   killer_ship ==
                     IF is_sc /\ Strip[m.weapon] # <<>> /\ Contains(<<"_">>, Strip[m.weapon])
                     THEN ShipDisplayName[Strip[m.weapon]]
                     ELSE IF Truthy(killer) /\ killer \in DriverNames(drv)
                          THEN ShipDisplayName[DriverGet(drv, killer).ship]
                          ELSE None
               IN [NoChange EXCEPT !.handled = TRUE, !.drivers = drv,
                     !.evt = << Evt(ActorDeathType(victim, killer, cause), victim, killer,
                                    victim_ship, killer_ship, cause, line.raw) >>,
                     !.reads = rev \cup {Read("ship_lookup", drv)}]

AttackerPut(att, name, t) ==
  IF \E i \in 1..Len(att) : att[i].name = name
  THEN [i \in 1..Len(att) |-> IF att[i].name = name THEN [name |-> name, ts |-> t] ELSE att[i]]
  ELSE Append(att, [name |-> name, ts |-> t])

handle_hostility_line(line) ==
  IF line.host = <<>> THEN NoChange
  ELSE LET m == line.host[1]
           attacker == CleanName[m.attacker]
           target == CleanName[m.target_pilot]
       IN IF attacker = <<>> \/ target = <<>> THEN NoChange
          ELSE [NoChange EXCEPT !.handled = TRUE,
                  !.drivers = IF m.target_vehicle # <<>>
                              THEN DriverPut(drivers, target, m.target_vehicle, now)
                              ELSE drivers,
                  !.attackers = AttackerPut(recent_attackers, attacker, now),
                  !.evt = << HostilityEvt(attacker, target, line.raw) >>]

\* the cascade of parse_loop: the first handler that returns True owns the line
Classify(line) ==
  LET d == extract_driver(line)
      c == handle_corpse_line(line)
      v == handle_vehicle_destruction(line)
      a == handle_actor_death_line(line)
      h == handle_hostility_line(line)
  IN IF d.handled THEN d
     ELSE IF c.handled THEN c
     ELSE IF v.handled THEN v
     ELSE IF a.handled THEN a
     ELSE [h EXCEPT !.reads = a.reads \cup h.reads]

\* no event taken for a duplicate
is_duplicate_never(sigs, times, s, t) == FALSE

\* the dedup test without its time window
is_duplicate_no_window(sigs, times, s, t) ==
  \E i \in 1..Len(sigs) : sigs[i] = s

\* the dedup test of broadcast
is_duplicate(sigs, times, s, t) ==
  LET idxs == {i \in 1..Len(sigs) : sigs[i] = s}
  IN idxs # {} /\ t - times[CHOOSE i \in idxs : \A j \in idxs : j <= i] < DEDUP_WINDOW_SEC

(* ------------------------------ actions ------------------------------- *)
\* time passes
Tick(steps) ==
  /\ ticks < MaxTicks
  /\ \E d \in steps : now' = now + d
  /\ ticks' = ticks + 1
  /\ UNCHANGED <<tailVars, line_q, corrVars, wsVars, pl, handled, bcast>>
  /\ UNCHANGED <<cfgVars, ovVars>>

\* the game appends a line to its log
EnvAppend(S) ==
  /\ file_exists
  /\ Len(file) < MaxLines
  /\ \E l \in S : file' = Append(file, l)
  /\ UNCHANGED <<tail_f, tail_pos, last_size, cbq, read_lines, dropped, tailCtl, line_q,
                 now, ticks, corrVars, wsVars, pl, handled, bcast>>
  /\ UNCHANGED <<cfgVars, ovVars>>

\* the log is removed or renamed away; a file the Tailer has open stays
\* readable through its handle
EnvRemove ==
  /\ file_exists
  /\ rotations < MaxRotations
  /\ file_exists' = FALSE
  /\ rotations' = rotations + 1
  /\ file' = IF tail_f = "open" THEN file ELSE <<>>
  /\ UNCHANGED <<tail_f, tail_pos, last_size, cbq, read_lines, dropped, stop_flag, tail_pc,
                 tail_ino, tail_last, after_stop, line_q, now, ticks, corrVars, wsVars,
                 pl, handled, bcast>>
  /\ UNCHANGED <<cfgVars, ovVars>>

\* a new, empty log is created at the path; a handle the Tailer holds is
\* left on the old file
EnvCreate ==
  /\ ~file_exists
  /\ file_exists' = TRUE
  /\ file' = <<>>
  /\ tail_f' = IF tail_f = "open" THEN "detached" ELSE tail_f
  /\ tail_ino' = IF tail_f = "open" THEN SubSeq(file, tail_pos + 1, Len(file)) ELSE tail_ino
  /\ UNCHANGED <<tail_pos, last_size, cbq, read_lines, dropped, rotations, stop_flag, tail_pc,
                 tail_last, after_stop, line_q, now, ticks, corrVars, wsVars, pl, handled,
                 bcast>>
  /\ UNCHANGED <<cfgVars, ovVars>>

\* the log is truncated in place
EnvTruncate ==
  /\ file_exists
  /\ file # <<>>
  /\ rotations < MaxRotations
  /\ rotations' = rotations + 1
  /\ file' = <<>>
  /\ UNCHANGED <<tail_f, tail_pos, last_size, cbq, read_lines, dropped, file_exists,
                 stop_flag, tail_pc, tail_ino, tail_last, after_stop, line_q, now, ticks,
                 corrVars, wsVars, pl, handled, bcast>>
  /\ UNCHANGED <<cfgVars, ovVars>>

\* main_async, finally: tail.stop_flag = True
Stop ==
  /\ ~stop_flag
  /\ stop_flag' = TRUE
  /\ UNCHANGED <<file, tail_f, tail_pos, last_size, cbq, read_lines, dropped, file_exists,
                 rotations, tail_pc, tail_ino, tail_last, after_stop, line_q, now, ticks,
                 corrVars, wsVars, pl, handled, bcast>>
  /\ UNCHANGED <<cfgVars, ovVars>>

\* self.loop.call_soon_threadsafe(self.q.put_nowait, line) for the lines ls:
\* each gets the number of its read as id
Scheduled(ls) ==
  [i \in 1..Len(ls) |-> [id |-> Len(read_lines) + i, line |-> ls[i]]]

\* the loop never left
WhileCheck_never(stop) == "iter"

\* while not self.stop_flag, evaluated after an iteration
WhileCheck(stop) == IF stop THEN "done" ELSE "iter"

\* an exception that ends the thread
OnError_fatal(stop) == "done"

\* except Exception: sleep 0.5 s and go on with the loop
OnError(stop) == WhileCheck(stop)

\* f after the iteration: the loop's exit closes it
AfterIter(f, pc) == IF pc = "done" THEN "closed" ELSE f

\* the iteration is past its test of os.path.exists
Ready == tail_pc = "slept" \/ (tail_pc = "iter" /\ file_exists)

\* one more iteration begun with the stop flag set
AfterStop == IF tail_pc = "iter" /\ stop_flag /\ after_stop < 2 THEN after_stop + 1 ELSE after_stop

\* the lines pushed at open: the file from read_offset on, without the line
\* at read_offset when read_offset > 0 (a line counts as one unit of size)
History(f) ==
  IF Len(f) > HISTORY_WINDOW
  THEN SubSeq(f, Len(f) - HISTORY_WINDOW + 2, Len(f))
  ELSE f

\* TailThread.run: the first test of the while condition
TailStart ==
  /\ tail_pc = "start"
  /\ tail_pc' = WhileCheck(stop_flag)
  /\ UNCHANGED <<file, tail_f, tail_pos, last_size, cbq, read_lines, dropped, file_exists,
                 rotations, stop_flag, tail_ino, tail_last, after_stop, line_q, now, ticks,
                 corrVars, wsVars, pl, handled, bcast>>
  /\ UNCHANGED <<cfgVars, ovVars>>

\* TailThread.run, the path does not exist: sleep 5 s, return if the stop
\* flag is set (f is not closed on this way out), else go on with the iteration
TailMissing ==
  /\ tail_pc = "iter"
  /\ ~file_exists
  /\ tail_pc' = IF stop_flag THEN "done" ELSE "slept"
  /\ tail_last' = "missing"
  /\ after_stop' = AfterStop
  /\ UNCHANGED <<file, tail_f, tail_pos, last_size, cbq, read_lines, dropped, file_exists,
                 rotations, stop_flag, tail_ino, line_q, now, ticks, corrVars, wsVars, pl,
                 handled, bcast>>
  /\ UNCHANGED <<cfgVars, ovVars>>

\* TailThread.run, f is None: open the file, push its recent history, and
\* find no further line in the same iteration
TailOpen ==
  /\ Ready
  /\ tail_f = "closed"
  /\ file_exists
  /\ cbq' = cbq \o Scheduled(History(file))
  /\ read_lines' = read_lines \o History(file)
  /\ tail_pos' = Len(file)
  /\ last_size' = Len(file)
  /\ tail_pc' = WhileCheck(stop_flag)
  /\ tail_f' = AfterIter("open", WhileCheck(stop_flag))
  /\ tail_last' = "history"
  /\ after_stop' = AfterStop
  /\ UNCHANGED <<file, dropped, file_exists, rotations, stop_flag, tail_ino, line_q, now,
                 ticks, corrVars, wsVars, pl, handled, bcast>>
  /\ UNCHANGED <<cfgVars, ovVars>>

\* TailThread.run: open() or readline() raises (the path is missing, or any
\* I/O error); nothing is pushed, f stays as it is
TailError ==
  /\ Ready
  /\ tail_pc' = OnError(stop_flag)
  /\ tail_f' = AfterIter(tail_f, OnError(stop_flag))
  /\ tail_last' = "error"
  /\ after_stop' = AfterStop
  /\ UNCHANGED <<file, tail_pos, last_size, cbq, read_lines, dropped, file_exists, rotations,
                 stop_flag, tail_ino, line_q, now, ticks, corrVars, wsVars, pl, handled,
                 bcast>>
  /\ UNCHANGED <<cfgVars, ovVars>>

\* readline() of the open handle finds a line
HasLine ==
  IF tail_f = "detached" THEN tail_ino # <<>> ELSE tail_pos < Len(file)
NextLine ==
  IF tail_f = "detached" THEN Head(tail_ino) ELSE file[tail_pos + 1]
\* os.path.getsize(path) < last_size; getsize raising leaves size = last_size
Truncated == file_exists /\ Len(file) < last_size

\* TailThread.run, one iteration with f open: readline, then either push the
\* line, or close f for a reopen when the file has shrunk, or sleep
TailRead ==
  /\ Ready
  /\ tail_f # "closed"
  /\ tail_pc' = WhileCheck(stop_flag)
  /\ after_stop' = AfterStop
  /\ IF HasLine
     THEN /\ cbq' = cbq \o Scheduled(<<NextLine>>)
          /\ read_lines' = Append(read_lines, NextLine)
          /\ tail_pos' = tail_pos + 1
          /\ last_size' = tail_pos + 1
          /\ tail_ino' = IF tail_f = "detached" THEN Tail(tail_ino) ELSE tail_ino
          /\ tail_f' = AfterIter(tail_f, WhileCheck(stop_flag))
          /\ tail_last' = "line"
     ELSE IF Truncated
          THEN /\ tail_f' = "closed"
               /\ last_size' = 0
               /\ tail_pos' = 0
               /\ tail_ino' = <<>>
               /\ tail_last' = "reopen"
               /\ UNCHANGED <<cbq, read_lines>>
          ELSE /\ tail_f' = AfterIter(tail_f, WhileCheck(stop_flag))
               /\ UNCHANGED <<cbq, read_lines, tail_pos, last_size, tail_ino, tail_last>>
  /\ UNCHANGED <<file, dropped, file_exists, rotations, stop_flag, line_q, now, ticks,
                 corrVars, wsVars, pl, handled, bcast>>
  /\ UNCHANGED <<cfgVars, ovVars>>

\* put_nowait of a queue made without maxsize
put_nowait_unbounded(q, x) == [q |-> Append(q, x), raised |-> FALSE]

\* put_nowait with the new line put in front of the waiting ones
put_nowait_front(q, x) ==
  IF Len(q) >= QUEUE_MAXSIZE
  THEN [q |-> q, raised |-> TRUE]
  ELSE [q |-> <<x>> \o q, raised |-> FALSE]

\* asyncio.Queue.put_nowait
put_nowait(q, x) ==
  IF Len(q) >= QUEUE_MAXSIZE
  THEN [q |-> q, raised |-> TRUE]
  ELSE [q |-> Append(q, x), raised |-> FALSE]

\* the event loop runs the oldest callback the Tailer queued; QueueFull is
\* raised inside the loop's callback and the line is gone
LoopPut ==
  /\ cbq # <<>>
  /\ cbq' = Tail(cbq)
  /\ line_q' = put_nowait(line_q, Head(cbq)).q
  /\ dropped' = IF put_nowait(line_q, Head(cbq)).raised THEN Append(dropped, Head(cbq)) ELSE dropped
  /\ UNCHANGED <<file, tail_f, tail_pos, last_size, read_lines, tailCtl, now, ticks,
                 corrVars, wsVars, pl, handled, bcast>>
  /\ UNCHANGED <<cfgVars, ovVars>>

\* recent_signatures.append(s); recent_times.append(t)
RecordSig(sigs, s) == DequeAppend(sigs, s, RECENT_MAXLEN)
\* recent_times kept as a plain list
RecordTime_list(times, t) == Append(times, t)
RecordTime(times, t) == DequeAppend(times, t, RECENT_MAXLEN)

\* the block entered without taking the lock
Acquire_skipped(lock, me) == lock

\* async with WS_LOCK, entered by task me: the lock is taken when it is free
Acquire(lock, me) == IF lock = "free" THEN me ELSE lock
\* the end of the async with block
Release(lock, me) == IF lock = me THEN "free" ELSE lock
\* an access to WS_CLIENTS made by task me with the lock as it is
Access(op, me, lock) == [op |-> op, by |-> me, locked |-> lock = me]
\* async with WS_LOCK: <one access to WS_CLIENTS>, as it leaves the log
Locked(op, me) == ws_log \cup {Access(op, me, Acquire(ws_lock, me))}

\* the linked entry kept when its event was dropped as a duplicate
Consumes_forwarded(dup) == ~dup

\* handle_corpse_line removes the linked entry after await broadcast(evt),
\* which returns in the same way for a dropped event
Consumes(dup) == TRUE

\* broadcast returning before its two appends
Records_never(dup) == FALSE

\* the signature and the time recorded for a dropped event as well
Records_always(dup) == TRUE

\* broadcast reaches its two appends unless the duplicate test returned first
Records(dup) == ~dup

\* the next line taken whatever the consumer is in the middle of
ConsumerFree_always(p) == TRUE

\* parse_loop is one task that awaits each handler and, through it, the
\* whole of broadcast: it is back at line_q.get() only when they returned
ConsumerFree(p) == p.pc = "get"

\* parse_loop from line_q.get() up to its next suspension: the cascade, and
\* broadcast up to the snapshot of WS_CLIENTS
ParseLoopGet ==
  /\ ConsumerFree(pl)
  /\ line_q # <<>>
  /\ line_q' = Tail(line_q)
  /\ handled' = Append(handled, Head(line_q).id)
  /\ \E r \in {Classify(Head(line_q).line)} :
     \E s \in {IF r.evt # <<>> THEN sign_evt(r.evt[1]) ELSE <<>>} :
     \E dup \in {r.evt # <<>> /\ is_duplicate(recent_signatures, recent_times, s, now)} :
     \E sending \in {r.evt # <<>> /\ ~dup /\ WS_CLIENTS # {}} :
        /\ drivers' = r.drivers
        /\ last_corpse' = r.last_corpse
        /\ recent_attackers' = r.attackers
        /\ drv_reads' = r.reads
        /\ evicted' = evicted \o r.evicted
        /\ bcast' = IF r.evt # <<>>
                    THEN Append(bcast, [evt |-> r.evt[1], t |-> now, fwd |-> ~dup,
                                        line |-> Head(line_q).id])
                    ELSE bcast
        /\ recent_signatures' = IF r.evt # <<>> /\ Records(dup)
                                THEN RecordSig(recent_signatures, s)
                                ELSE recent_signatures
        /\ recent_times' = IF r.evt # <<>> /\ Records(dup)
                           THEN RecordTime(recent_times, now)
                           ELSE recent_times
        /\ pending_vehicle_kills' = IF sending \/ r.remove = <<>> \/ ~Consumes(dup)
                                    THEN r.pending
                                    ELSE RemoveFirst(r.pending, r.remove[1])
        /\ pl' = IF sending
                 THEN [pc |-> "send", k |-> Len(bcast) + 1, snap |-> WS_CLIENTS,
                       clients |-> WS_CLIENTS, to_drop |-> {},
                       evt |-> r.evt, remove |-> r.remove]
                 ELSE Idle
        /\ IF r.evt # <<>> /\ ~dup
           THEN /\ ws_lock = "free"
                /\ ws_log' = Locked("snapshot", "parse_loop")
                /\ ws_lock' = Release(Acquire(ws_lock, "parse_loop"), "parse_loop")
           ELSE UNCHANGED <<ws_lock, ws_log>>
  /\ failed' = failed
  /\ UNCHANGED <<tailVars, now, ticks, WS_CLIENTS, ws_pc, conn, inbox, sent>>
  /\ UNCHANGED <<cfgVars, ovVars>>

\* the exception left to end the task
OnLineError_fatal(p) == [Idle EXCEPT !.pc = "dead"]

\* except Exception as e: the error is printed and the while loop goes on
OnLineError(p) == Idle

\* parse_loop takes a line and its processing raises: in a handler, before
\* it has changed anything, or in broadcast, before the duplicate test, when
\* the handler has updated its caches and the statements after its
\* await broadcast(evt) are never reached
ParseLoopRaise ==
  /\ ConsumerFree(pl)
  /\ line_q # <<>>
  /\ line_q' = Tail(line_q)
  /\ handled' = Append(handled, Head(line_q).id)
  /\ failed' = Append(failed, Head(line_q).id)
  /\ \E at \in {"handler", "broadcast"} :
     \E r \in {Classify(Head(line_q).line)} :
        IF at = "handler"
        THEN UNCHANGED <<drivers, last_corpse, recent_attackers, drv_reads, evicted,
                         pending_vehicle_kills, bcast>>
        ELSE /\ r.evt # <<>>
             /\ drivers' = r.drivers
             /\ last_corpse' = r.last_corpse
             /\ recent_attackers' = r.attackers
             /\ drv_reads' = r.reads
             /\ evicted' = evicted \o r.evicted
             /\ pending_vehicle_kills' = r.pending
             /\ bcast' = Append(bcast, [evt |-> r.evt[1], t |-> now, fwd |-> FALSE,
                                        line |-> Head(line_q).id])
  /\ pl' = OnLineError(pl)
  /\ UNCHANGED <<tailVars, now, ticks, wsVars, recent_signatures, recent_times>>
  /\ UNCHANGED <<cfgVars, ovVars>>

\* a ws.send to connection c: of the greeting (k = 0) or of the event of the
\* k-th call of broadcast; n counts the sends of the same message to c, and
\* at is the number of calls of broadcast made when this send starts
Send(c, k, ok) ==
  [c |-> c, k |-> k, ok |-> ok, at |-> Len(bcast),
   n |-> Cardinality({e \in sent : e.c = c /\ e.k = k}) + 1]

\* the failed subscriber kept in the loop and tried again
Remaining_retry(clients, c, ok) == IF ok THEN clients \ {c} ELSE clients

\* the loop left at the first failed send
Remaining_abort(clients, c, ok) == IF ok THEN clients \ {c} ELSE {}

\* for ws in clients: the subscribers still to be sent to after c
Remaining(clients, c, ok) == clients \ {c}

\* broadcast: one await ws.send(payload); after the last one the failed
\* connections are discarded and the handler runs on to its return
BroadcastSend ==
  /\ pl.pc = "send"
  /\ \E c \in pl.clients :
     \E ok \in {conn[c] = "open" /\ ws_pc[c] # "closed"} :
     \E rest \in {Remaining(pl.clients, c, ok)} :
     \E to_drop \in {IF ok THEN pl.to_drop ELSE pl.to_drop \cup {c}} :
          /\ inbox' = IF ok THEN [inbox EXCEPT ![c] = Append(@, pl.evt[1])] ELSE inbox
          /\ sent' = sent \cup {Send(c, pl.k, ok)}
          /\ IF rest = {} /\ to_drop # {}
             THEN /\ ws_lock = "free"
                  /\ ws_log' = Locked("discard", "parse_loop")
                  /\ ws_lock' = Release(Acquire(ws_lock, "parse_loop"), "parse_loop")
             ELSE UNCHANGED <<ws_lock, ws_log>>
          /\ IF rest = {}
             THEN /\ WS_CLIENTS' = WS_CLIENTS \ to_drop
                  /\ pending_vehicle_kills' =
                       IF pl.remove = <<>> THEN pending_vehicle_kills
                       ELSE RemoveFirst(pending_vehicle_kills, pl.remove[1])
                  /\ pl' = Idle
             ELSE /\ pl' = [pl EXCEPT !.clients = rest, !.to_drop = to_drop]
                  /\ UNCHANGED <<WS_CLIENTS, pending_vehicle_kills>>
  /\ UNCHANGED <<tailVars, line_q, now, ticks, drivers, recent_signatures, recent_times,
                 last_corpse, recent_attackers, drv_reads, evicted, failed, ws_pc, conn,
                 handled, bcast>>
  /\ UNCHANGED <<cfgVars, ovVars>>

\* a handler that ends without its finally block
Discard_skipped(clients, c) == clients

\* finally: async with WS_LOCK: WS_CLIENTS.discard(ws)
Discard(clients, c) == clients \ {c}

Hello == [type |-> "hello"]

\* the greeting left out
Greet_skipped(box) == box

\* await ws.send(json.dumps(hello)): the greeting goes onto the connection
Greet(box) == Append(box, Hello)

\* ws_handler up to its first suspension: add the connection under WS_LOCK
\* and start the send of the greeting
WsConnect(CS) ==
  /\ \E c \in CS :
       /\ ws_pc[c] = "idle"
       /\ ws_lock = "free"
       /\ ws_log' = Locked("add", c)
       /\ ws_lock' = Release(Acquire(ws_lock, c), c)
       /\ WS_CLIENTS' = WS_CLIENTS \cup {c}
       /\ inbox' = IF conn[c] = "open" THEN [inbox EXCEPT ![c] = Greet(@)] ELSE inbox
       /\ sent' = sent \cup {Send(c, 0, conn[c] = "open")}
       /\ ws_pc' = [ws_pc EXCEPT ![c] = "hello"]
  /\ UNCHANGED <<tailVars, line_q, now, ticks, corrVars, conn, pl, handled, bcast>>
  /\ UNCHANGED <<cfgVars, ovVars>>

\* ws_handler: the send of the greeting returns and the receive loop is
\* entered, or it raises and finally discards the connection
WsHello(CS) ==
  /\ \E c \in CS :
       /\ ws_pc[c] = "hello"
       /\ IF conn[c] = "open"
          THEN /\ ws_pc' = [ws_pc EXCEPT ![c] = "recv"]
               /\ WS_CLIENTS' = WS_CLIENTS
               /\ UNCHANGED <<ws_lock, ws_log>>
          ELSE /\ ws_pc' = [ws_pc EXCEPT ![c] = "closed"]
               /\ ws_lock = "free"
               /\ ws_log' = Locked("discard", c)
               /\ ws_lock' = Release(Acquire(ws_lock, c), c)
               /\ WS_CLIENTS' = Discard(WS_CLIENTS, c)
  /\ UNCHANGED <<tailVars, line_q, now, ticks, corrVars, conn, inbox, sent, pl, handled, bcast>>
  /\ UNCHANGED <<cfgVars, ovVars>>

\* ws_handler: the receive loop ends and finally discards the connection
WsClose(CS) ==
  /\ \E c \in CS :
       /\ ws_pc[c] = "recv"
       /\ ws_lock = "free"
       /\ ws_log' = Locked("discard", c)
       /\ ws_lock' = Release(Acquire(ws_lock, c), c)
       /\ WS_CLIENTS' = Discard(WS_CLIENTS, c)
       /\ ws_pc' = [ws_pc EXCEPT ![c] = "closed"]
  /\ UNCHANGED <<tailVars, line_q, now, ticks, corrVars, conn, inbox, sent, pl, handled, bcast>>
  /\ UNCHANGED <<cfgVars, ovVars>>

\* a connection breaks
ConnBreak(CS) ==
  /\ \E c \in CS :
       /\ conn[c] = "open"
       /\ ws_pc[c] # "closed"
       /\ conn' = [conn EXCEPT ![c] = "dead"]
  /\ UNCHANGED <<tailVars, line_q, now, ticks, corrVars, WS_CLIENTS, ws_pc, inbox, sent,
                 ws_lock, ws_log, pl, handled, bcast>>
  /\ UNCHANGED <<cfgVars, ovVars>>

\* a line is written to the log, read by the Tailer and put on the empty
\* queue by the loop, in one step (the consumer keeps up with the Tailer)
Feed(S, max) ==
  /\ Len(file) < max
  /\ cbq = <<>> /\ line_q = <<>> /\ tail_pos = Len(file)
  /\ \E l \in S :
       /\ file' = Append(file, l)
       /\ read_lines' = Append(read_lines, l)
       /\ line_q' = put_nowait(line_q, [id |-> Len(read_lines) + 1, line |-> l]).q
  /\ tail_f' = "open"
  /\ tail_pos' = tail_pos + 1
  /\ last_size' = tail_pos + 1
  /\ UNCHANGED <<cbq, dropped, tailCtl, now, ticks, corrVars, wsVars, pl, handled, bcast>>
  /\ UNCHANGED <<cfgVars, ovVars>>

Deliver(S) == Feed(S, MaxFeed)

(* --------------------------- specifications --------------------------- *)
PipeLines == {L_vd_Alice_Bob, L_host}
PipeTicks == {5}
PipeClients == {"c1"}

\* the whole pipeline
Next ==
  \/ EnvAppend(PipeLines)
  \/ TailStart
  \/ TailOpen
  \/ TailRead
  \/ LoopPut
  \/ ParseLoopGet
  \/ BroadcastSend
  \/ WsConnect(PipeClients)
  \/ WsHello(PipeClients)
  \/ WsClose(PipeClients)
  \/ ConnBreak(PipeClients)
  \/ Tick(PipeTicks)

Spec == Init /\ [][Next]_vars


\* the consumer alone, fed the lines S one at a time while the clock
\* advances by the steps D
CorrNext(S, D) ==
  \/ Deliver(S)
  \/ ParseLoopGet
  \/ Tick(D)

\* lines that lead to events with equal and with different signatures
DedupLines == {L_vd_Alice_Bob, L_ad_sc, L_vd_Bob_bob, L_host}
DedupTicks == {2, 3}
NextDedup == CorrNext(DedupLines, DedupTicks)
SpecDedup == Init /\ [][NextDedup]_vars

\* vehicle destructions with an unresolved driver, and corpses
LinkLines == {L_vd_unk_Bob, L_vd_unk_unk, L_corpse_Alice, L_corpseP_bob, L_drv}
LinkTicks == {1, 6}
NextLink == CorrNext(LinkLines, LinkTicks)
SpecLink == Init /\ [][NextLink]_vars

\* destructions without a driver, one more than the pending queue holds, and
\* a corpse after them
PendLines == {L_vd_unk_Bob, L_vd_unk_unk, L_corpse_Alice}
PendTicks == {1}
NextPend == Feed(PendLines, PENDING_MAXLEN + 2) \/ ParseLoopGet \/ Tick(PendTicks)
SpecPend == Init /\ [][NextPend]_vars

\* driver associations growing old
TTLLines == {L_drv, L_ad_ent, L_ad_alt, L_vd_Alice_Bob, L_host}
TTLTicks == {2, 299}
NextTTL == CorrNext(TTLLines, TTLTicks)
SpecTTL == Init /\ [][NextTTL]_vars

\* lines of every emitting path, with and without a victim that resolves
ClassLines == {L_ad_self, L_ad_ent, L_drv, L_vd_Bob_bob, L_vd_unk_Bob,
               L_corpse_bob, L_corpseP_bob, L_corpseP_unk}
ClassTicks == {7}
NextClass == CorrNext(ClassLines, ClassTicks)
SpecClass == Init /\ [][NextClass]_vars

(* ------------------------------ claims -------------------------------- *)
Ids(q) == {q[i].id : i \in 1..Len(q)}
HandledIds == {handled[i] : i \in 1..Len(handled)}

\* C1: no line the Tailer reads is dropped: every line it has read was taken
\* by parse_loop or is still on its way to it (queued for the loop or in the
\* line queue), however far the consumer is behind
C1_EveryLineDelivered ==
  \A i \in 1..Len(read_lines) : i \in HandledIds \cup Ids(line_q) \cup Ids(cbq)

\* C2: parse_loop takes the lines in the order the Tailer read them, and the
\* events reach broadcast in the order of their lines
C2_LogOrder ==
  /\ \A i, j \in 1..Len(handled) : i < j => handled[i] < handled[j]
  /\ \A i, j \in 1..Len(bcast) : i < j => bcast[i].line <= bcast[j].line
  /\ \A i \in 1..Len(bcast) : bcast[i].line \in HandledIds

\* two lines waited in the queue together and both gave an event
C2_Witness ==
  /\ Len(bcast) >= 2
  /\ bcast[1].line < bcast[2].line
  /\ Len(handled) >= 2


\* broadcast calls so far, their signatures, and the forwarded ones
Sig(k) == sign_evt(bcast[k].evt)
Fwd == SelectSeq(bcast, LAMBDA b : b.fwd)
FwdBetween(i, j) == Cardinality({k \in (i + 1)..(j - 1) : bcast[k].fwd})
LastEvt == bcast[Len(bcast)]

\* C3 as the spec states it: of two candidate events with one signature that
\* reach broadcast less than 5 s apart only the first is forwarded, and a
\* candidate that comes 5 s or more (so 6 s) after every forwarded event of
\* its signature is forwarded
C3_Original ==
  /\ \A i, j \in 1..Len(bcast) :
       (i < j /\ Sig(i) = Sig(j) /\ bcast[i].fwd /\ bcast[j].t - bcast[i].t < DEDUP_WINDOW_SEC)
         => ~bcast[j].fwd
  /\ \A j \in 1..Len(bcast) :
       (\A i \in 1..(j - 1) :
          (Sig(i) = Sig(j) /\ bcast[i].fwd) => bcast[j].t - bcast[i].t >= DEDUP_WINDOW_SEC)
         => bcast[j].fwd

\* C3 amended: the second of two same-signature candidates less than 5 s
\* apart is dropped when the first was forwarded and fewer than RECENT_MAXLEN
\* (256) events were forwarded between them, so that the first one's record
\* is still in the ring; a candidate 5 s or more (so 6 s) after every
\* forwarded event of its signature is forwarded again
C3_DedupIdempotence ==
  /\ \A i, j \in 1..Len(bcast) :
       (/\ i < j /\ Sig(i) = Sig(j) /\ bcast[i].fwd
        /\ bcast[j].t - bcast[i].t < DEDUP_WINDOW_SEC
        /\ FwdBetween(i, j) < RECENT_MAXLEN)
         => ~bcast[j].fwd
  /\ \A j \in 1..Len(bcast) :
       (\A i \in 1..(j - 1) :
          (Sig(i) = Sig(j) /\ bcast[i].fwd) => bcast[j].t - bcast[i].t >= DEDUP_WINDOW_SEC)
         => bcast[j].fwd

\* one signature three times: forwarded, dropped within 5 s, forwarded 6 s
\* after the first
C3_Witness ==
  \E i, j, k \in 1..Len(bcast) :
    /\ i < j /\ j < k /\ Sig(i) = Sig(j) /\ Sig(j) = Sig(k)
    /\ bcast[i].fwd /\ ~bcast[j].fwd /\ bcast[k].fwd
    /\ bcast[j].t - bcast[i].t < DEDUP_WINDOW_SEC
    /\ bcast[k].t - bcast[i].t = 6

\* a ParseLoopGet step, and the line it takes
Took == handled' # handled
TheLine == Head(line_q).line
KillTypes == {"kill", "suicide", "death"}
\* a name that is no player's: empty, 'unknown', or an entity id (an
\* underscore and a last part of 9 or more digits)
NotAName(n) ==
  \/ n = <<>>
  \/ Lower[n] = unknown
  \/ (Contains(<<"_">>, n) /\ isdigit(LastPart(n)) /\ Len(LastPart(n)) >= 9)
\* the victim a corpse line names: the RE_CORPSE name, else the
\* RE_CORPSE_PLAYER name
CorpseName(L) ==
  IF L.corpse # <<>> /\ ~NotAName(L.corpse[1]) THEN L.corpse[1]
  ELSE IF L.corpse_player # <<>> /\ ~NotAName(L.corpse_player[1]) THEN L.corpse_player[1]
  ELSE <<>>
\* the line goes to handle_corpse_line and names a victim
IsCorpseLine(L) == L.drv = <<>> /\ CorpseName(L) # <<>>
\* the line goes to handle_vehicle_destruction
IsDestructionLine(L) == L.drv = <<>> /\ CorpseName(L) = <<>> /\ L.vd # <<>>
\* the line goes to handle_actor_death_line in the <Actor Death> format
IsActorDeathLine(L) == L.drv = <<>> /\ CorpseName(L) = <<>> /\ L.vd = <<>> /\ L.sc # <<>>
\* the pending entries a corpse handled now may link
Linkable == {i \in 1..Len(pending_vehicle_kills) :
               now - pending_vehicle_kills[i].ts <= LINK_WINDOW_SEC}
Latest == CHOOSE i \in Linkable : \A j \in Linkable : j <= i
Count(q, x) == Cardinality({i \in 1..Len(q) : q[i] = x})

\* C4: every kill, suicide or death event passed to broadcast has a
\* non-empty victim, and a line whose victim does not resolve (a destruction
\* with an unresolved driver, an <Actor Death> victim that is no name and is
\* in no driver's vehicle id) passes no such event to broadcast
C4_VictimNeverEmpty ==
  /\ [](\A k \in 1..Len(bcast) :
          bcast[k].evt.type \in KillTypes => Truthy(bcast[k].evt.victim))
  /\ [][(/\ Took
         /\ \/ IsDestructionLine(TheLine) /\ NotAName(TheLine.vd[1].driver)
            \/ /\ IsActorDeathLine(TheLine)
               /\ NotAName(TheLine.sc[1].victim)
               /\ \A i \in 1..Len(drivers) : ~Contains(TheLine.sc[1].victim, drivers[i].ship))
        => (bcast' = bcast \/ bcast'[Len(bcast')].evt.type \notin KillTypes)]_vars

\* an <Actor Death> line with an entity id as victim was taken while no
\* driver had that vehicle, and gave no event; another line gave one
C4_Witness ==
  /\ bcast # <<>>
  /\ LastEvt.evt.type \in KillTypes
  /\ \E i \in 1..Len(handled) :
       /\ read_lines[handled[i]] = L_ad_ent
       /\ \A k \in 1..Len(bcast) : bcast[k].line # handled[i]
  /\ \E i \in 1..Len(handled) : read_lines[handled[i]] = L_vd_unk_Bob


\* C5: a corpse line naming P, taken while the latest pending destruction
\* within 6 s has a killer K other than P (ignoring case), passes exactly one
\* event to broadcast: type kill, victim P, killer K, victim_ship derived
\* from the destruction's vehicle; it is forwarded unless its signature is
\* in the dedup window, and that pending entry is used up, so that a second
\* corpse line gets no event from the same destruction
C5_DestructionCorpseLink ==
  [][(/\ Took /\ IsCorpseLine(TheLine) /\ Linkable # {}
      /\ pending_vehicle_kills[Latest].killer # <<>>
      /\ Lower[pending_vehicle_kills[Latest].killer] # Lower[CorpseName(TheLine)])
     => LET p == pending_vehicle_kills[Latest]
            e == bcast'[Len(bcast')]
        IN /\ Len(bcast') = Len(bcast) + 1
           /\ SubSeq(bcast', 1, Len(bcast)) = bcast
           /\ e.evt.type = "kill"
           /\ e.evt.victim = CorpseName(TheLine)
           /\ e.evt.killer = p.killer
           /\ e.evt.victim_ship = ShipDisplayName[p.vehicle]
           /\ (p.vehicle = ANVL_Arrow_123456789 => e.evt.victim_ship = <<"A","r","r","o","w">>)
           /\ e.evt.raw = p.raw
           /\ ((\A k \in 1..Len(bcast) :
                  Sig(k) = sign_evt(e.evt) => now - bcast[k].t >= DEDUP_WINDOW_SEC) => e.fwd)
           /\ Len(pending_vehicle_kills') = Len(pending_vehicle_kills) - 1
           /\ Count(pending_vehicle_kills', p) = Count(pending_vehicle_kills, p) - 1
           /\ last_corpse' = last_corpse]_vars

\* destruction by Bob with an unknown driver, then Alice's corpse within
\* 6 s: one kill event Alice <- Bob in an Arrow, forwarded; a second corpse
\* line was then taken and gave no further event
C5_Witness ==
  /\ Len(bcast) = 1
  /\ bcast[1].fwd
  /\ bcast[1].evt.type = "kill"
  /\ bcast[1].evt.victim = Alice
  /\ bcast[1].evt.killer = Bob
  /\ bcast[1].evt.victim_ship = <<"A","r","r","o","w">>
  /\ bcast[1].t > 0
  /\ Len(handled) = 3
  /\ bcast[1].line = handled[2]
  /\ read_lines[handled[3]] \in {L_corpse_Alice, L_corpseP_Alice}
  /\ pending_vehicle_kills = <<>>

\* C6: a corpse line taken while pending entries exist and every one of them
\* is more than LINK_WINDOW_SEC (6 s) old gives no event, leaves the pending
\* queue as it is, and stores (now, victim) in last_corpse
C6_LinkExpiry ==
  [][(/\ Took /\ IsCorpseLine(TheLine)
      /\ pending_vehicle_kills # <<>>
      /\ \A i \in 1..Len(pending_vehicle_kills) :
           now - pending_vehicle_kills[i].ts > LINK_WINDOW_SEC)
     => /\ bcast' = bcast
        /\ pending_vehicle_kills' = pending_vehicle_kills
        /\ last_corpse' = << [t |-> now, victim |-> CorpseName(TheLine)] >>]_vars

\* the corpse came 7 s after the only pending destruction
C6_Witness ==
  /\ Len(pending_vehicle_kills) = 1
  /\ now - pending_vehicle_kills[1].ts = 7
  /\ last_corpse # <<>>
  /\ last_corpse[1].t = now
  /\ bcast = <<>>
  /\ Len(handled) = 2

\* C7: wherever the drivers map is read (reverse lookup of an entity id,
\* victim/killer ship lookup, get_killer_ship) it holds no entry whose
\* last_seen is more than DRIVER_TTL_SEC (300 s) in the past
C7_NoStaleDriverRead ==
  \A r \in drv_reads : r.stale = {}

\* C8: the pending queue never holds more than PENDING_MAXLEN (64) entries;
\* a push on the full queue removes the oldest entry and keeps the others in
\* order; and a corpse links only an entry that is in the queue, so an
\* entry pushed out is never linked
C8_PendingBounded ==
  /\ [](Len(pending_vehicle_kills) <= PENDING_MAXLEN)
  /\ [][(/\ Took /\ IsDestructionLine(TheLine) /\ NotAName(TheLine.vd[1].driver)
         /\ Len(pending_vehicle_kills) >= PENDING_MAXLEN)
        => /\ Len(pending_vehicle_kills') = PENDING_MAXLEN
           /\ SubSeq(pending_vehicle_kills', 1, PENDING_MAXLEN - 1) = Tail(pending_vehicle_kills)
           /\ pending_vehicle_kills'[PENDING_MAXLEN].raw = TheLine.raw
           /\ pending_vehicle_kills'[PENDING_MAXLEN].ts = now
           /\ evicted' = Append(evicted, Head(pending_vehicle_kills))]_vars
  /\ [][(Took /\ IsCorpseLine(TheLine) /\ bcast' # bcast)
        => \E i \in 1..Len(pending_vehicle_kills) :
             /\ pending_vehicle_kills[i].raw = bcast'[Len(bcast')].evt.raw
             /\ pending_vehicle_kills[i].killer = OrEmpty(bcast'[Len(bcast')].evt.killer)
             /\ pending_vehicle_kills[i].damage_type = bcast'[Len(bcast')].evt.cause]_vars

\* a push found the queue full, the oldest entry went, and the corpse that
\* came next was linked to an entry still queued
C8_Witness ==
  /\ evicted # <<>>
  /\ Len(pending_vehicle_kills) = PENDING_MAXLEN - 1
  /\ bcast # <<>>
  /\ LastEvt.evt.raw # evicted[1].raw

\* C9: recent_signatures and recent_times have one length, at most
\* RECENT_MAXLEN (256), and hold, index by index, the signatures and the
\* times of the last forwarded events, also after eviction at capacity
C9_RingsInLockStep ==
  /\ Len(recent_signatures) = Len(recent_times)
  /\ Len(recent_signatures) <= RECENT_MAXLEN
  /\ LET n == Len(Fwd)
         m == Len(recent_signatures)
     IN /\ m = IF n < RECENT_MAXLEN THEN n ELSE RECENT_MAXLEN
        /\ \A i \in 1..m :
             /\ recent_signatures[i] = sign_evt(Fwd[n - m + i].evt)
             /\ recent_times[i] = Fwd[n - m + i].t

\* more events were forwarded than the rings hold, at different times
C9_Witness ==
  /\ Len(Fwd) > RECENT_MAXLEN
  /\ Len(recent_signatures) = RECENT_MAXLEN
  /\ recent_times[1] # recent_times[RECENT_MAXLEN]

\* C10: on every path, an event whose killer equals its victim ignoring case
\* has type suicide, whatever its cause is
C10_SelfKillIsSuicide ==
  \A k \in 1..Len(bcast) :
    (/\ Truthy(bcast[k].evt.victim) /\ Truthy(bcast[k].evt.killer)
     /\ Lower[bcast[k].evt.victim] = Lower[bcast[k].evt.killer])
      => bcast[k].evt.type = "suicide"

\* a destruction caused by Bob was linked to the corpse of bob: suicide with
\* cause Combat
C10_Witness ==
  \E k \in 1..Len(bcast) :
    /\ bcast[k].evt.victim = bob
    /\ bcast[k].evt.killer = Bob
    /\ bcast[k].evt.cause = Combat
    /\ bcast[k].evt.raw = L_vd_unk_Bob.raw
    /\ bcast[k].evt.type = "suicide"

(* ----------------------- entity ids and the cascade ------------------- *)
\* lines whose victim token is an entity id, with and without a driver of
\* that vehicle, and lines that two patterns match
EntLines == {L_drv, L_ad_ent, L_corpse_ent, L_corpse_Alice, L_vd_unk_Bob, L_host}
EntTicks == {3}
NextEnt == CorrNext(EntLines, EntTicks)
SpecEnt == Init /\ [][NextEnt]_vars

\* a token with an underscore whose last part is 9 or more digits
EntityToken(n) ==
  Contains(<<"_">>, n) /\ isdigit(LastPart(n)) /\ Len(LastPart(n)) >= 9
\* the victim tokens the patterns capture in a line
VictimTokens(L) ==
  {L.corpse[i] : i \in 1..Len(L.corpse)} \cup
  {L.corpse_player[i] : i \in 1..Len(L.corpse_player)} \cup
  {L.vd[i].driver : i \in 1..Len(L.vd)} \cup
  {L.sc[i].victim : i \in 1..Len(L.sc)} \cup
  {L.ad[i].victim : i \in 1..Len(L.ad)}
\* the call of broadcast a ParseLoopGet step makes
Emits == Took /\ bcast' # bcast
NewEvt == bcast'[Len(bcast')].evt

E2ELines == {L_ad_sc, L_drv_Alice, L_drv, L_host, L_ad_self}
E2ETicks == {3}
NextE2E == CorrNext(E2ELines, E2ETicks)
SpecE2E == Init /\ [][NextE2E]_vars

Arrow == <<"A","r","r","o","w">>
Gladius == <<"G","l","a","d","i","u","s">>

\* C18: the line  <Actor Death> 'Alice' in zone 'ANVL_Arrow_123456789'
\* killed by 'Bob' using 'laser_cannon' with damage type 'Combat'  makes
\* parse_loop call broadcast exactly once, with an event of type kill, victim
\* Alice, killer Bob, cause Combat and the victim_ship of the zone (Arrow),
\* whatever drivers holds for Alice
C18_ActorDeathEndToEnd ==
  [][(Took /\ TheLine = L_ad_sc)
     => /\ Len(bcast') = Len(bcast) + 1
        /\ NewEvt.type = "kill"
        /\ NewEvt.victim = Alice
        /\ NewEvt.killer = Bob
        /\ NewEvt.cause = Combat
        /\ NewEvt.victim_ship = Arrow
        /\ NewEvt.raw = L_ad_sc.raw]_vars

\* the line was handled while drivers held Alice as the driver of a Gladius
C18_Witness ==
  /\ bcast # <<>>
  /\ LastEvt.evt.raw = L_ad_sc.raw
  /\ LastEvt.evt.victim_ship = Arrow
  /\ LastEvt.line = handled[Len(handled)]
  /\ \E i \in 1..Len(drivers) :
       /\ drivers[i].name = Alice
       /\ ShipDisplayName[drivers[i].ship] = Gladius
  /\ pl.pc = "get"

(* --------------------------- the ordered cascade ---------------------- *)
\* what the handler of the first pattern that matches a line does with it,
\* in the order driver-entered, corpse, vehicle destruction, actor death,
\* hostility
OwnerResult(L) ==
  IF L.drv # <<>> THEN extract_driver(L)
  ELSE IF L.corpse # <<>> \/ L.corpse_player # <<>> THEN handle_corpse_line(L)
  ELSE IF L.vd # <<>> THEN handle_vehicle_destruction(L)
  ELSE IF L.sc # <<>> \/ L.ad # <<>> THEN handle_actor_death_line(L)
  ELSE handle_hostility_line(L)

\* C20: the handler of the first pattern that matches a line is the only one
\* that acts on it: drivers, last_corpse and recent_attackers change as that
\* handler changes them, and an event is passed to broadcast only by that
\* handler (that no other handler reads the line is not observable and not
\* stated here)
C20_FirstMatchOwnsLine ==
  [][Took =>
       /\ drivers' = OwnerResult(TheLine).drivers
       /\ last_corpse' = OwnerResult(TheLine).last_corpse
       /\ recent_attackers' = OwnerResult(TheLine).attackers
       /\ IF OwnerResult(TheLine).evt = <<>>
          THEN bcast' = bcast
          ELSE Emits /\ NewEvt = OwnerResult(TheLine).evt[1]]_vars

(* ------------------------------ the fan-out --------------------------- *)
\* the consumer and three subscribers; the clock stands still, so a line
\* fed a second time gives a duplicate
WsLines == {L_vd_Alice_Bob, L_host}
\* the subscribers are interchangeable: two of them may break, one may leave
Breaking == {"c1", "c2"}
Closing == {"c3"}
NextWs ==
  \/ Feed(WsLines, MaxWsFeed)
  \/ ParseLoopGet
  \/ BroadcastSend
  \/ WsConnect(Clients)
  \/ WsHello(Clients)
  \/ WsClose(Closing)
  \/ ConnBreak(Breaking)
SpecWs == Init /\ [][NextWs]_vars

\* the sends of the k-th call of broadcast
SendsOf(S, k) == {e \in S : e.k = k}

\* C12: broadcast takes the subscribers in WS_CLIENTS as its snapshot and,
\* when it returns, has sent the event once to every subscriber of the
\* snapshot (3 subscribers, 3 sends) whether or not a send failed, to nobody
\* else, and has removed from WS_CLIENTS exactly the subscribers whose send
\* failed
C12_FanOut ==
  [][/\ (pl.pc = "get" /\ pl'.pc = "send") => pl'.snap = WS_CLIENTS
     /\ (pl.pc = "send" /\ pl'.pc = "get")
          => /\ \A c \in pl.snap :
                  Cardinality({e \in SendsOf(sent', pl.k) : e.c = c}) = 1
             /\ \A e \in SendsOf(sent', pl.k) : e.c \in pl.snap
             /\ WS_CLIENTS' =
                  WS_CLIENTS \ {c \in pl.snap :
                                  \E e \in SendsOf(sent', pl.k) : e.c = c /\ ~e.ok}]_vars

\* an event went to three subscribers, one send failed, and the two others
\* are the subscribers left
C12_Witness ==
  /\ pl.pc = "get"
  /\ \E k \in 1..Len(bcast) :
       /\ Cardinality(SendsOf(sent, k)) = 3
       /\ Cardinality({e \in SendsOf(sent, k) : e.ok}) = 2
       /\ WS_CLIENTS = {e.c : e \in {x \in SendsOf(sent, k) : x.ok}}

\* C13: the first message a subscriber receives is the greeting, and every
\* event sent to it comes from a call of broadcast made after the send of
\* its greeting was started
C13_GreetingFirst ==
  /\ \A c \in Clients : inbox[c] # <<>> => inbox[c][1] = Hello
  /\ \A e \in sent :
       e.k > 0 => \E h \in sent : h.c = e.c /\ h.k = 0 /\ h.at < e.k

\* a subscriber connected after one event: it got the greeting and then the
\* next event, while the send of its greeting had not yet returned
C13_Witness ==
  /\ Len(bcast) = 2
  /\ bcast[1].fwd
  /\ \E c \in Clients :
       /\ ws_pc[c] = "hello"
       /\ Len(inbox[c]) = 2
       /\ inbox[c][2] = bcast[2].evt
       /\ \E h \in sent : h.c = c /\ h.k = 0 /\ h.at = 1

\* C14: no message is sent to the same subscriber twice, so a failed send
\* is not tried again, and an event the dedup dropped is sent to nobody
C14_AtMostOnce ==
  /\ \A e \in sent : e.n = 1
  /\ \A e \in sent : e.k > 0 => (e.k <= Len(bcast) /\ bcast[e.k].fwd)
  /\ \A c \in Clients :
       Len(inbox[c]) = Cardinality({e \in sent : e.c = c /\ e.ok})

\* a send of the first event failed, the broadcast returned, and the same
\* line fed again was dropped as a duplicate
C14_Witness ==
  /\ pl.pc = "get"
  /\ Len(bcast) = 2
  /\ ~bcast[2].fwd
  /\ \E e \in sent : e.k = 1 /\ ~e.ok
  /\ \E e \in sent : e.k = 1 /\ e.ok


(* ------------------ the Tailer and the log file's life ----------------- *)
\* the lines the game writes in the runs of the Tailer alone
TailLines == {L_host}

\* one step of the Tailer thread
TailStep == TailStart \/ TailMissing \/ TailOpen \/ TailError \/ TailRead

\* the Tailer with a log that grows, is truncated, removed and created again,
\* and with the shutdown of the main coroutine
NextTail ==
  \/ EnvAppend(TailLines)
  \/ EnvRemove
  \/ EnvCreate
  \/ EnvTruncate
  \/ Stop
  \/ TailStart
  \/ TailMissing
  \/ TailOpen
  \/ TailError
  \/ TailRead

SpecTail == Init /\ [][NextTail]_vars

\* C15: when the Tailer finds no new data and the file's size is smaller than
\* the last read offset, it closes the file, and the open that follows reads
\* from offset zero: every line of the file's new content is pushed.
C15_TruncationReopen ==
  [][ /\ (TailRead /\ ~HasLine /\ Truncated) =>
           (tail_f' = "closed" /\ last_size' = 0 /\ tail_last' = "reopen")
      /\ (TailOpen /\ tail_last = "reopen") =>
           read_lines' = read_lines \o file ]_vars

\* C16 as stated: in every step the Tailer takes while the log file does not
\* exist, and in every step where open or readline raises, no line is pushed,
\* and the loop is only ever left with the stop flag set.
C16_NoPushWhileMissing ==
  [][ /\ tail_pc' = "done" => stop_flag'
      /\ (TailStep /\ (~file_exists \/ TailError)) =>
           (read_lines' = read_lines /\ cbq' = cbq) ]_vars

\* C16, amended: in every step the Tailer takes while the log file does not
\* exist and it holds no open file, and in every step where open or readline
\* raises, no line is pushed; the Tailer goes on with its loop, which is only
\* ever left with the stop flag set.
C16_TransientIO ==
  [][ /\ tail_pc' = "done" => stop_flag'
      /\ (TailStep /\ ((~file_exists /\ tail_f = "closed") \/ TailError)) =>
           (read_lines' = read_lines /\ cbq' = cbq) ]_vars

\* the open of a missing file has failed and the Tailer is back at the top of
\* its loop
C16_Witness ==
  /\ ~file_exists /\ tail_f = "closed" /\ ~stop_flag
  /\ tail_last = "error" /\ tail_pc = "iter"

(* ----------------------------- cancellation ---------------------------- *)
\* the Tailer with its consumers: the loop's callbacks and parse_loop run
\* while the log grows or goes away and the shutdown comes at any moment
NextStop ==
  \/ EnvAppend(TailLines)
  \/ EnvRemove
  \/ Stop
  \/ TailStart
  \/ TailMissing
  \/ TailOpen
  \/ TailError
  \/ TailRead
  \/ LoopPut
  \/ ParseLoopGet

\* the Tailer is a thread of its own: the scheduler runs it again and again,
\* and its sleeps are finite
SpecStop == Init /\ [][NextStop]_vars /\ WF_vars(TailStep)

\* C17: once the stop flag is set, the Tailer begins no further iteration
\* after the one it is in, and it terminates.
C17_Cancellation ==
  /\ [](after_stop <= 1)
  /\ stop_flag ~> (tail_pc = "done")

\* the flag was set in the middle of an iteration whose file is missing, with
\* lines waiting in the queue and an attacker remembered; the Tailer
\* has finished that iteration and is done
C17_Witness ==
  /\ stop_flag /\ tail_pc = "done" /\ after_stop = 1
  /\ tail_last = "missing"
  /\ line_q # <<>>
  /\ recent_attackers # <<>>

(* ------------------------- configuration at start ---------------------- *)
\* the module's configuration block runs on the config.ini it finds
LoadConfig ==
  /\ cfg.state = "unset"
  /\ cfg' = Configure(config_ini)
  /\ UNCHANGED <<config_ini, tailVars, line_q, now, ticks, corrVars, wsVars, pl, handled,
                 bcast, ovVars>>

InitCfg ==
  /\ Started
  /\ config_ini \in ConfigFiles
  /\ cfg = Unset

NextCfg == LoadConfig

SpecCfg == InitCfg /\ [][NextCfg]_vars

\* the text is not an integer in 1024..65535
BadPort(opt) ==
  opt.set /\ ~(ParseInt(opt.text).ok /\ PortInRange(ParseInt(opt.text).val))

\* C19: once the configuration block has run, startup goes on; with an HTTP
\* or WebSocket port that is not an integer in 1024..65535 the configuration
\* is the defaults (host 127.0.0.1, ports 8080 and 8765, default log path);
\* and a host outside {127.0.0.1, localhost, 0.0.0.0} is replaced by 127.0.0.1.
C19_ConfigFallback ==
  cfg.state # "unset" =>
    /\ cfg.state = "set"
    /\ (BadPort(config_ini.http) \/ BadPort(config_ini.ws)) => cfg = Defaults
    /\ \A h \in Hosts :
         _validate_host(h) = IF h \in AllowedHosts THEN h ELSE "127.0.0.1"

(* --------------------- lines that no handler takes --------------------- *)
\* actor-death lines with and without a victim that resolves, one of them a
\* hostility line as well
FallLines == {L_host_ad, L_ad_ent, L_drv, L_ad_sc, L_host}
FallTicks == {3}
NextFall == CorrNext(FallLines, FallTicks)
SpecFall == Init /\ [][NextFall]_vars

\* the line matches an actor-death pattern and no pattern of a handler that
\* comes before handle_actor_death_line
IsFallbackLine(L) ==
  /\ L.drv = <<>> /\ L.corpse = <<>> /\ L.corpse_player = <<>> /\ L.vd = <<>>
  /\ (L.sc # <<>> \/ L.ad # <<>>)
\* the victim token of an actor-death line
VictimRaw(L) == IF L.sc # <<>> THEN L.sc[1].victim ELSE L.ad[1].victim
\* the token is no name and no driver's vehicle contains it
Unresolvable(L) ==
  /\ NotAName(VictimRaw(L))
  /\ \A i \in 1..Len(drivers) : ~Contains(VictimRaw(L), drivers[i].ship)

\* C21: an actor-death line whose victim cannot be resolved passes no event
\* of any type to broadcast and changes no cache, also when the line matches
\* the hostility pattern.
C21_UnresolvedDiscarded ==
  [][(Took /\ IsFallbackLine(TheLine) /\ Unresolvable(TheLine))
     => /\ bcast' = bcast
        /\ UNCHANGED <<drivers, pending_vehicle_kills, last_corpse, recent_attackers,
                       recent_signatures, recent_times>>]_vars

(* ------------------------ the event-type decision ---------------------- *)
\* every emitting path with the damage type Suicide and with another one
TypeLines == {L_ad_su, L_ad_sc, L_vd_Alice_Bob_su, L_vd_Alice_Bob, L_vd_unk_Bob_su,
              L_vd_unk_unk, L_corpse_Alice, L_corpseP_Alice}
TypeTicks == {6}
NextType == CorrNext(TypeLines, TypeTicks)
SpecType == Init /\ [][NextType]_vars

\* the decision for a known victim and a killer that is absent or another
\* name: the cause first, then the killer
CauseThenKiller(killer, cause) ==
  IF Contains(<<"s","u","i","c","i","d","e">>, lower(OrEmpty(cause))) THEN "suicide"
  ELSE IF ~Truthy(killer) THEN "death"
  ELSE "kill"

\* C22: every kill, suicide or death event whose killer is absent or differs
\* from its victim (ignoring case) has the type that its cause and its killer
\* decide: suicide when the cause contains 'suicide', else death without a
\* killer and kill with one, whichever handler made the event.
C22_UniformTypeDecision ==
  \A k \in 1..Len(bcast) :
    (/\ bcast[k].evt.type \in KillTypes
     /\ Truthy(bcast[k].evt.victim)
     /\ (Truthy(bcast[k].evt.killer) => Lower[bcast[k].evt.killer] # Lower[bcast[k].evt.victim]))
      => bcast[k].evt.type = CauseThenKiller(bcast[k].evt.killer, bcast[k].evt.cause)

(* ------------------------- vehicle destructions ------------------------ *)
\* destructions with a driver and without one, more of the latter than the
\* pending queue holds, and a corpse
VdLines == {L_vd_Alice_Bob, L_vd_Bob_bob, L_vd_unk_Bob, L_vd_unk_unk, L_corpse_Alice}
VdTicks == {7}
NextVd == CorrNext(VdLines, VdTicks)
SpecVd == Init /\ [][NextVd]_vars

\* a token as a name: empty when it is no name
AsName(n) == IF NotAName(n) THEN <<>> ELSE n
\* the pending entry a destruction line taken now stands for
PendingOf(L) ==
  [ts |-> now, killer |-> AsName(L.vd[1].causer), vehicle |-> L.vd[1].vehicle,
   damage_type |-> L.vd[1].damage_type, raw |-> L.raw]

\* C23: a vehicle-destruction line with a resolved driver passes exactly one
\* event to broadcast, with the driver as victim, and leaves the pending
\* queue as it is; one with an unresolved driver passes no event and appends
\* exactly one entry (now, killer or empty, vehicle, damage type, raw line)
\* to the pending queue, whose other entries keep their order.
C23_VehicleDestruction ==
  [][(Took /\ IsDestructionLine(TheLine))
     => IF ~NotAName(TheLine.vd[1].driver)
        THEN /\ Len(bcast') = Len(bcast) + 1
             /\ SubSeq(bcast', 1, Len(bcast)) = bcast
             /\ bcast'[Len(bcast')].evt.victim = TheLine.vd[1].driver
             /\ bcast'[Len(bcast')].evt.type \in KillTypes
             /\ bcast'[Len(bcast')].evt.raw = TheLine.raw
             /\ pending_vehicle_kills' = pending_vehicle_kills
        ELSE /\ bcast' = bcast
             /\ pending_vehicle_kills' # <<>>
             /\ pending_vehicle_kills'[Len(pending_vehicle_kills')] = PendingOf(TheLine)
             /\ SubSeq(pending_vehicle_kills', 1, Len(pending_vehicle_kills') - 1) =
                  IF Len(pending_vehicle_kills) < PENDING_MAXLEN
                  THEN pending_vehicle_kills ELSE Tail(pending_vehicle_kills)]_vars

\* a destruction without a driver was queued with no killer at 7 s, and a
\* destruction driven by Alice then gave an event and left the queue alone
C23_Witness ==
  /\ Len(pending_vehicle_kills) = 1
  /\ pending_vehicle_kills[1] =
       [ts |-> 7, killer |-> <<>>, vehicle |-> AEGS_Gladius_42, damage_type |-> Crash,
        raw |-> L_vd_unk_unk.raw]
  /\ Len(bcast) = 1
  /\ bcast[1].evt.victim = Alice
  /\ bcast[1].evt.raw = L_vd_Alice_Bob.raw
  /\ Len(handled) = 2
  /\ bcast[1].line = handled[2]

(* ------------------------ the entry a corpse links --------------------- *)
\* q without its i-th entry
WithoutIndex(q, i) == SubSeq(q, 1, i - 1) \o SubSeq(q, i + 1, Len(q))

DrvLines == {L_drv_Alice, L_vd_unk_Bob, L_host, L_corpse_Alice}
DrvTicks == {3}
DrvClients == {"c1"}
NextDrv ==
  \/ CorrNext(DrvLines, DrvTicks)
  \/ BroadcastSend
  \/ WsConnect(DrvClients)
  \/ WsHello(DrvClients)
SpecDrv == Init /\ [][NextDrv]_vars

\* C25: a driver-entered-vehicle line sets drivers[driver] to the vehicle it
\* names with last_seen = now and leaves every other driver's entry as it
\* was; it passes no event to broadcast and leaves the pending queue,
\* last_corpse, the attacker cache, the dedup buffers and the subscriber set
\* unchanged.
C25_DriverLine ==
  [][(Took /\ TheLine.drv # <<>>)
     => /\ DriverNames(drivers') = DriverNames(drivers) \cup {Strip[TheLine.drv[1].driver]}
        /\ DriverGet(drivers', Strip[TheLine.drv[1].driver]) =
             [name |-> Strip[TheLine.drv[1].driver], ship |-> Strip[TheLine.drv[1].ship],
              last_seen |-> now]
        /\ \A n \in DriverNames(drivers) \ {Strip[TheLine.drv[1].driver]} :
             DriverGet(drivers', n) = DriverGet(drivers, n)
        /\ Len(drivers') = Cardinality(DriverNames(drivers'))
        /\ bcast' = bcast
        /\ pl' = pl
        /\ sent' = sent
        /\ UNCHANGED <<pending_vehicle_kills, last_corpse, recent_attackers,
                       recent_signatures, recent_times, WS_CLIENTS>>]_vars

\* with a subscriber connected and every other cache filled, Alice, whom a
\* hostility line had put in the Arrow, entered the Gladius at 3 s
C25_Witness ==
  /\ Len(handled) = 4
  /\ handled[4] = Len(read_lines)
  /\ read_lines[4] = L_drv_Alice
  /\ now = 3
  /\ DriverGet(drivers, Alice) = [name |-> Alice, ship |-> AEGS_Gladius_42, last_seen |-> 3]
  /\ pending_vehicle_kills # <<>>
  /\ last_corpse # <<>>
  /\ recent_attackers # <<>>
  /\ recent_signatures # <<>>
  /\ WS_CLIENTS = {"c1"}

(* ----------------------------- hostility lines ------------------------- *)
\* hostility lines between players, and one whose attacker is an entity id
HostLines == {L_host, L_host_Carol, L_host_ent}
HostTicks == {3}
NextHost == CorrNext(HostLines, HostTicks)
SpecHost == Init /\ [][NextHost]_vars

\* the line matches RE_HOSTILITY and no pattern of a handler before it
HostilityOnly(L) ==
  /\ L.host # <<>>
  /\ L.drv = <<>> /\ L.corpse = <<>> /\ L.corpse_player = <<>>
  /\ L.vd = <<>> /\ L.sc = <<>> /\ L.ad = <<>>

\* C26: every line that matches the hostility pattern and no pattern of a
\* higher priority puts the target vehicle in drivers with last_seen = now,
\* records an attacker in recent_attackers at now, and passes one hostility
\* event made from the line to broadcast, whatever the attacker and target
\* tokens are.
C26_HostilityAlways ==
  [][(Took /\ HostilityOnly(TheLine))
     => /\ \E i \in 1..Len(drivers') :
             /\ drivers'[i].ship = TheLine.host[1].target_vehicle
             /\ drivers'[i].last_seen = now
        /\ \E j \in 1..Len(recent_attackers') : recent_attackers'[j].ts = now
        /\ Len(bcast') = Len(bcast) + 1
        /\ bcast'[Len(bcast')].evt.type = "hostility"
        /\ bcast'[Len(bcast')].evt.raw = TheLine.raw]_vars

(* --------------------------- dropped duplicates ------------------------ *)
\* one line again and again, 4 s apart, and a line of another signature
RepeatLines == {L_vd_Alice_Bob, L_host}
RepeatTicks == {4}
NextRepeat == CorrNext(RepeatLines, RepeatTicks)
SpecRepeat == Init /\ [][NextRepeat]_vars

\* C27: a call of broadcast that drops its event as a duplicate leaves
\* recent_signatures and recent_times as they were, so the 5 s window runs
\* from the last forwarded event of the signature: of three candidates in a
\* row with one signature, each 4 s after the one before and the first one
\* forwarded, the second is dropped and the third is forwarded.
C27_DropLeavesRings ==
  /\ [][(Took /\ Len(bcast') = Len(bcast) + 1 /\ ~bcast'[Len(bcast')].fwd)
        => UNCHANGED <<recent_signatures, recent_times>>]_vars
  /\ [](\A i \in 1..(Len(bcast) - 2) :
          (/\ Sig(i) = Sig(i + 1) /\ Sig(i + 1) = Sig(i + 2)
           /\ bcast[i].fwd
           /\ bcast[i + 1].t - bcast[i].t = 4
           /\ bcast[i + 2].t - bcast[i + 1].t = 4)
            => (~bcast[i + 1].fwd /\ bcast[i + 2].fwd))

\* the destruction of Alice's ship by Bob read at 0 s, 4 s and 8 s:
\* forwarded, dropped, forwarded, and the ring holds the times 0 and 8
C27_Witness ==
  /\ Len(bcast) = 3
  /\ \A i \in 1..3 : bcast[i].evt.raw = L_vd_Alice_Bob.raw /\ bcast[i].t = 4 * (i - 1)
  /\ bcast[1].fwd /\ ~bcast[2].fwd /\ bcast[3].fwd
  /\ recent_times = <<0, 8>>
  /\ recent_signatures = <<Sig(1), Sig(1)>>

(* -------------------------------- WS_LOCK ------------------------------ *)
\* C28: every add to, removal from and snapshot of WS_CLIENTS is made by a
\* task that holds WS_LOCK (and every change of the set and every snapshot
\* is such an access); the lock is free whenever a send is in progress, of
\* an event or of a greeting, so a subscriber that connects or leaves in
\* the middle of a broadcast is not kept waiting: its handler can run.
C28_LockDiscipline ==
  /\ [](\A a \in ws_log : a.locked)
  /\ []((pl.pc = "send" \/ \E c \in Clients : ws_pc[c] = "hello") => ws_lock = "free")
  /\ []((pl.pc = "send" /\ \E c \in Clients : ws_pc[c] \in {"idle", "recv"})
          => ENABLED (WsConnect(Clients) \/ WsClose(Clients)))
  /\ [][/\ (\E c \in WS_CLIENTS' : c \notin WS_CLIENTS)
            => \E c \in WS_CLIENTS' \ WS_CLIENTS : Access("add", c, c) \in ws_log'
        /\ (\E c \in WS_CLIENTS : c \notin WS_CLIENTS')
            => \E a \in ws_log' : a.op = "discard"
        /\ (pl.pc = "get" /\ pl'.pc = "send")
            => Access("snapshot", "parse_loop", "parse_loop") \in ws_log']_vars

\* in the middle of a broadcast to c1 one subscriber has connected and is
\* being greeted and another has left; the set has been added to, taken a
\* snapshot of and removed from, by the handlers and by broadcast
C28_Witness ==
  /\ pl.pc = "send"
  /\ pl.clients # {}
  /\ \E c \in Clients : ws_pc[c] = "hello" /\ c \notin pl.snap /\ c \in WS_CLIENTS
  /\ \E c \in pl.snap : ws_pc[c] = "closed" /\ c \notin WS_CLIENTS
  /\ \E c \in Clients : Access("add", c, c) \in ws_log
  /\ \E c \in Clients : Access("discard", c, c) \in ws_log
  /\ Access("snapshot", "parse_loop", "parse_loop") \in ws_log
  /\ Access("discard", "parse_loop", "parse_loop") \in ws_log

(* ---------------------------- single consumer -------------------------- *)
\* C29: parse_loop takes a line only when it is at line_q.get(); while
\* broadcast is suspended at a send no line is taken, no call of broadcast is
\* begun and no cache changes; broadcast is left only when a send to every
\* subscriber of its snapshot has been made; and no step of the Tailer
\* thread changes drivers, recent_attackers, pending_vehicle_kills,
\* last_corpse or the dedup buffers.
C29_SingleConsumer ==
  /\ [][Took => (pl.pc = "get" /\ pl.clients = {})]_vars
  /\ [][(pl.pc = "send")
        => /\ handled' = handled /\ bcast' = bcast
           /\ UNCHANGED <<drivers, recent_attackers, last_corpse,
                          recent_signatures, recent_times>>
           /\ (pending_vehicle_kills' # pending_vehicle_kills => pl'.pc = "get")
           /\ (pl'.pc = "get" => \A c \in pl.snap : \E e \in sent' : e.c = c /\ e.k = pl.k)]_vars
  /\ [][(TailStep \/ LoopPut \/ EnvAppend(PipeLines))
        => UNCHANGED <<drivers, recent_attackers, pending_vehicle_kills, last_corpse,
                       recent_signatures, recent_times>>]_vars

\* broadcast is suspended at the send of the first line's event while the
\* second line waits in the queue and the Tailer has read a third
C29_Witness ==
  /\ pl.pc = "send"
  /\ Len(handled) = 1
  /\ Len(line_q) = 1
  /\ Len(read_lines) = 3
  /\ recent_attackers # <<>>

(* ---------------------------- per-line failures ------------------------ *)
\* lines of which any may raise while it is processed, and one subscriber
ErrLines == {L_vd_unk_Bob, L_corpse_Alice, L_host}
ErrClients == {"c1"}
\* one step of the parse_loop task
ConsumerStep == ParseLoopGet \/ ParseLoopRaise \/ BroadcastSend
NextErr ==
  \/ Deliver(ErrLines)
  \/ ParseLoopGet
  \/ ParseLoopRaise
  \/ BroadcastSend
  \/ WsConnect(ErrClients)
  \/ WsHello(ErrClients)
\* the event loop runs a task that is ready
SpecErr == Init /\ [][NextErr]_vars /\ WF_vars(ConsumerStep)

\* C30: when the processing of a line raises, parse_loop is back at
\* line_q.get() and nothing is sent for that line, then or later; the
\* consumer is never stopped, and every line put on the queue after a
\* failure is taken in its turn.
C30_FailureDoesNotStop ==
  /\ [](pl.pc \in {"get", "send"})
  /\ [][failed' # failed => (pl'.pc = "get" /\ sent' = sent /\ inbox' = inbox)]_vars
  /\ [](\A e \in sent : \A i \in 1..Len(failed) : e.k > 0 => bcast[e.k].line # failed[i])
  /\ ((line_q # <<>>) ~> (line_q = <<>>))

\* the first line raised, and the event of a later line was sent to the
\* subscriber
C30_Witness ==
  /\ failed # <<>>
  /\ failed[1] = 1
  /\ \E e \in sent : e.k > 0 /\ e.ok /\ bcast[e.k].line > failed[1]
  /\ pl.pc = "get"

(* ------------------------------ the line queue ------------------------- *)
\* C31: the line queue never holds more than QUEUE_MAXSIZE (4096) lines;
\* every entry in it is a line the Tailer read, and the queue grows only by
\* the loop running a put_nowait the Tailer scheduled, which appends that
\* line at the end.
C31_QueueBounded ==
  /\ [](Len(line_q) <= QUEUE_MAXSIZE)
  /\ [](\A i \in 1..Len(line_q) :
          /\ line_q[i].id \in 1..Len(read_lines)
          /\ line_q[i].line = read_lines[line_q[i].id])
  /\ [][(Len(line_q') > Len(line_q) \/ (line_q' # line_q /\ ~Took))
        => /\ cbq # <<>>
           /\ cbq' = Tail(cbq)
           /\ line_q' = Append(line_q, Head(cbq))]_vars

\* the queue is full of lines the Tailer read and a further put_nowait has
\* raised QueueFull
C31_Witness ==
  /\ Len(line_q) = QUEUE_MAXSIZE
  /\ dropped # <<>>
  /\ Len(read_lines) = QUEUE_MAXSIZE + 1

(* --------------------------- handlers that end ------------------------- *)
\* subscribers that connect, break at any moment and leave, while events
\* are broadcast
SubLines == {L_vd_Alice_Bob, L_host}
\* c1 and c2 may break, c2 and c3 may end their receive loop
Leaving == {"c2", "c3"}
NextSub ==
  \/ Feed(SubLines, MaxWsFeed)
  \/ ParseLoopGet
  \/ BroadcastSend
  \/ WsConnect(Clients)
  \/ WsHello(Clients)
  \/ WsClose(Leaving)
  \/ ConnBreak(Breaking)
SpecSub == Init /\ [][NextSub]_vars

\* C32: a subscriber whose handler has ended, because the peer left, the
\* greeting could not be sent or the connection broke while receiving, is
\* not in WS_CLIENTS, is never in it again, and is in the snapshot of no
\* broadcast that begins afterwards.
C32_EndedHandlerRemoved ==
  /\ [](\A c \in Clients : ws_pc[c] = "closed" => c \notin WS_CLIENTS)
  /\ [][\A c \in Clients :
          /\ (ws_pc[c] # "closed" /\ ws_pc'[c] = "closed") => c \notin WS_CLIENTS'
          /\ ws_pc[c] = "closed" => ws_pc'[c] = "closed"
          /\ (ws_pc[c] = "closed" /\ pl.pc = "get" /\ pl'.pc = "send") => c \notin pl'.snap]_vars

\* three handlers have ended, one on a greeting that failed, one on a
\* connection that broke after the greeting, one whose peer left, and a
\* broadcast that began afterwards is sending to nobody of them
C32_Witness ==
  /\ \E c \in Clients :
       ws_pc[c] = "closed" /\ conn[c] = "dead" /\ \E e \in sent : e.c = c /\ e.k = 0 /\ ~e.ok
  /\ \E c \in Clients :
       ws_pc[c] = "closed" /\ conn[c] = "dead" /\ \E e \in sent : e.c = c /\ e.k = 0 /\ e.ok
  /\ \E c \in Clients : ws_pc[c] = "closed" /\ conn[c] = "open"
  /\ WS_CLIENTS = {}
  /\ Len(bcast) = 2
  /\ bcast[2].fwd
  /\ \E e \in sent : e.k = 1
  /\ ~\E e \in sent : e.k = 2

(* ------------------------ repeats and the ring's size ------------------ *)
\* C33 as the spec states it: no two forwarded events have one signature
\* and acceptance times less than 5 s apart, however many other events were
\* recorded between them
C33_Original ==
  \A i, j \in 1..Len(bcast) :
    (i < j /\ bcast[i].fwd /\ bcast[j].fwd /\ Sig(i) = Sig(j))
      => bcast[j].t - bcast[i].t >= DEDUP_WINDOW_SEC

\* C33 amended: two forwarded events with one signature are less than 5 s
\* apart only if RECENT_MAXLEN (256) or more events were forwarded between
\* them, so that the ring had pushed out the record of the first; and a
\* candidate whose signature's every earlier record has been pushed out in
\* that way is forwarded, also within 5 s
C33_NoRepeatWhileRecorded ==
  /\ \A i, j \in 1..Len(bcast) :
       (/\ i < j /\ bcast[i].fwd /\ bcast[j].fwd /\ Sig(i) = Sig(j)
        /\ bcast[j].t - bcast[i].t < DEDUP_WINDOW_SEC)
         => FwdBetween(i, j) >= RECENT_MAXLEN
  /\ \A j \in 1..Len(bcast) :
       (\A i \in 1..(j - 1) :
          (bcast[i].fwd /\ Sig(i) = Sig(j)) => FwdBetween(i, j) >= RECENT_MAXLEN)
         => bcast[j].fwd

\* an event was forwarded, RECENT_MAXLEN events of other signatures were
\* forwarded after it, and its repeat at the same second was forwarded too
C33_Witness ==
  \E i, j \in 1..Len(bcast) :
    /\ i < j /\ bcast[i].fwd /\ bcast[j].fwd /\ Sig(i) = Sig(j)
    /\ bcast[j].t = bcast[i].t
    /\ FwdBetween(i, j) = RECENT_MAXLEN
    /\ \A k \in (i + 1)..(j - 1) : Sig(k) # Sig(i)

(* ----------------------- hostility events and dedup -------------------- *)
\* hostility lines of different attackers and targets, and destructions
\* whose events have other signatures
HostDedupLines == {L_host, L_host_Carol, L_vd_Alice_Bob, L_vd_Bob_bob}
HostDedupTicks == {3}
NextHostDedup == CorrNext(HostDedupLines, HostDedupTicks)
SpecHostDedup == Init /\ [][NextHostDedup]_vars

IsHostility(k) == bcast[k].evt.type = "hostility"
\* the hostility line binds its target pilot and caches its attacker
HostilityCached ==
  /\ DriverGet(drivers', TheLine.host[1].target_pilot) =
       [name |-> TheLine.host[1].target_pilot, ship |-> TheLine.host[1].target_vehicle,
        last_seen |-> now]
  /\ \E i \in 1..Len(recent_attackers') :
       recent_attackers'[i] = [name |-> TheLine.host[1].attacker, ts |-> now]

\* C34 as stated: every hostility event has the signature ('hostility', '',
\* ''); once one is forwarded every hostility event less than 5 s later is
\* dropped, whatever its attacker and target; and the line of a hostility
\* event, dropped or not, still updates drivers and recent_attackers
C34_Original ==
  /\ [](\A k \in 1..Len(bcast) : IsHostility(k) => Sig(k) = <<"hostility", <<>>, <<>>>>)
  /\ [](\A i, j \in 1..Len(bcast) :
          (/\ i < j /\ IsHostility(i) /\ IsHostility(j) /\ bcast[i].fwd
           /\ bcast[j].t - bcast[i].t < DEDUP_WINDOW_SEC)
            => ~bcast[j].fwd)
  /\ [][(Took /\ Len(bcast') = Len(bcast) + 1 /\ bcast'[Len(bcast')].evt.type = "hostility")
        => HostilityCached]_vars

\* C34 amended: the same, for a later hostility event that comes while the
\* record of the forwarded one is still in the ring, that is when fewer
\* than RECENT_MAXLEN (256) events were forwarded between the two
C34_HostilityCollides ==
  /\ [](\A k \in 1..Len(bcast) : IsHostility(k) => Sig(k) = <<"hostility", <<>>, <<>>>>)
  /\ [](\A i, j \in 1..Len(bcast) :
          (/\ i < j /\ IsHostility(i) /\ IsHostility(j) /\ bcast[i].fwd
           /\ bcast[j].t - bcast[i].t < DEDUP_WINDOW_SEC
           /\ FwdBetween(i, j) < RECENT_MAXLEN)
            => ~bcast[j].fwd)
  /\ [][(Took /\ Len(bcast') = Len(bcast) + 1 /\ bcast'[Len(bcast')].evt.type = "hostility")
        => HostilityCached]_vars

\* Bob's attack on Alice was forwarded; Carol's attack on Bob 3 s later was
\* dropped, and Bob is bound to his ship and Carol is cached all the same
C34_Witness ==
  /\ Len(bcast) = 2
  /\ bcast[1].evt.attacker = Bob /\ bcast[1].fwd /\ bcast[1].t = 0
  /\ bcast[2].evt.attacker = Carol /\ bcast[2].evt.target = Bob
  /\ ~bcast[2].fwd /\ bcast[2].t = 3
  /\ DriverGet(drivers, Bob).last_seen = 3
  /\ \E i \in 1..Len(recent_attackers) : recent_attackers[i] = [name |-> Carol, ts |-> 3]

(* ---------------------- record first, snapshot second ------------------ *)
\* events with nobody connected, and a subscriber that connects later
LateLines == {L_vd_Alice_Bob, L_host}
LateTicks == {3}
LateClients == {"c1"}
NextLate ==
  \/ CorrNext(LateLines, LateTicks)
  \/ BroadcastSend
  \/ WsConnect(LateClients)
  \/ WsHello(LateClients)
SpecLate == Init /\ [][NextLate]_vars

\* C35: an event that passes the duplicate test while WS_CLIENTS is empty
\* is recorded in recent_signatures and recent_times all the same and is
\* sent to nobody; so when the next call of broadcast comes less than 5 s
\* later with the same signature it is dropped, also if a subscriber has
\* connected in between, and neither call sends anything to any subscriber.
C35_RecordBeforeSnapshot ==
  /\ [][(/\ Took /\ Len(bcast') = Len(bcast) + 1 /\ bcast'[Len(bcast')].fwd
         /\ WS_CLIENTS = {})
        => /\ recent_signatures' # <<>>
           /\ recent_signatures'[Len(recent_signatures')] = sign_evt(bcast'[Len(bcast')].evt)
           /\ recent_times'[Len(recent_times')] = now
           /\ pl'.pc = "get"
           /\ sent' = sent]_vars
  /\ [](\A i \in 1..(Len(bcast) - 1) :
          (/\ bcast[i].fwd
           /\ ~\E e \in sent : e.k = i
           /\ Sig(i + 1) = Sig(i)
           /\ bcast[i + 1].t - bcast[i].t < DEDUP_WINDOW_SEC)
            => /\ ~bcast[i + 1].fwd
               /\ ~\E e \in sent : e.k \in {i, i + 1})

\* the destruction was accepted at 0 s with nobody connected; c1 connected
\* and was greeted; the same line came again at 3 s and was dropped: c1 is
\* in the set and has received the greeting alone
C35_Witness ==
  /\ Len(bcast) = 2
  /\ bcast[1].evt.raw = L_vd_Alice_Bob.raw /\ bcast[2].evt.raw = L_vd_Alice_Bob.raw
  /\ bcast[1].fwd /\ ~bcast[2].fwd
  /\ bcast[1].t = 0 /\ bcast[2].t = 3
  /\ WS_CLIENTS = {"c1"}
  /\ ws_pc["c1"] = "recv"
  /\ inbox["c1"] = <<Hello>>
  /\ \A e \in sent : e.k = 0

(* -------------------- a linked event that is dropped ------------------- *)
InQueue(q, x) == \E i \in 1..Len(q) : q[i] = x

\* C36: when a corpse line links a pending entry and broadcast drops the
\* event as a duplicate, the entry is taken out of the pending queue all
\* the same and every other entry stays: the queue is one entry shorter,
\* holds one entry equal to the linked one less, and, when the linked entry
\* had no equal in the queue, holds it no more, so that no later corpse
\* line can link it.
C36_DroppedLinkConsumes ==
  [][(/\ Took /\ IsCorpseLine(TheLine) /\ Linkable # {}
      /\ Len(bcast') = Len(bcast) + 1 /\ ~bcast'[Len(bcast')].fwd)
     => /\ bcast'[Len(bcast')].evt.raw = pending_vehicle_kills[Latest].raw
        /\ Len(pending_vehicle_kills') = Len(pending_vehicle_kills) - 1
        /\ \A i \in 1..Len(pending_vehicle_kills) :
             Count(pending_vehicle_kills', pending_vehicle_kills[i]) =
               Count(pending_vehicle_kills, pending_vehicle_kills[i])
                 - (IF pending_vehicle_kills[i] = pending_vehicle_kills[Latest] THEN 1 ELSE 0)
        /\ (Count(pending_vehicle_kills, pending_vehicle_kills[Latest]) = 1
              => ~InQueue(pending_vehicle_kills', pending_vehicle_kills[Latest]))
        /\ UNCHANGED <<recent_signatures, recent_times, last_corpse>>]_vars

\* two destructions by Bob were each followed by Alice's corpse; the second
\* kill Alice <- Bob came 1 s after the first and was dropped, and the
\* queue is empty
C36_Witness ==
  /\ Len(bcast) = 2
  /\ bcast[1].fwd /\ ~bcast[2].fwd
  /\ bcast[1].evt.victim = Alice /\ bcast[2].evt.victim = Alice
  /\ bcast[1].evt.killer = Bob /\ bcast[2].evt.killer = Bob
  /\ bcast[2].evt.raw = L_vd_unk_Bob.raw
  /\ bcast[2].t = bcast[1].t + 1
  /\ Len(handled) = 4
  /\ bcast[2].line = handled[4]
  /\ pending_vehicle_kills = <<>>

(* ------------------------- the corpse kept for later ------------------- *)
\* C37: a destruction line with an unresolved driver, handled at most 6 s
\* after a corpse line that found no pending entry to link and was kept in
\* last_corpse, passes an event to broadcast whose victim is the player of
\* that corpse.
C37_StoredCorpseMatched ==
  [][(/\ Took /\ IsDestructionLine(TheLine) /\ NotAName(TheLine.vd[1].driver)
      /\ last_corpse # <<>>
      /\ now - last_corpse[1].t <= LINK_WINDOW_SEC)
     => /\ Len(bcast') = Len(bcast) + 1
        /\ bcast'[Len(bcast')].evt.type \in KillTypes
        /\ bcast'[Len(bcast')].evt.victim = last_corpse[1].victim]_vars

(* ------------------------- the attacker cache -------------------------- *)
\* hostility lines of two attackers and destruction lines of both branches,
\* read 8 s apart: two steps of the clock pass the 15 s of the cache
AttLines == {L_host, L_host_Carol, L_vd_Alice_Bob, L_vd_unk_Bob}
AttTicks == {8}
NextAtt == CorrNext(AttLines, AttTicks)
SpecAtt == Init /\ [][NextAtt]_vars

Fresh(e) == now - e.ts <= ATTACKER_CACHE_TTL
FreshIndices == {i \in 1..Len(recent_attackers) : Fresh(recent_attackers[i])}

appendleft_unbounded(q, x, maxlen) == <<x>> \o q

\* deque(maxlen=...).appendleft: the entry at the right end is discarded
\* when the deque is full
appendleft(q, x, maxlen) ==
  IF Len(q) >= maxlen THEN <<x>> \o SubSeq(q, 1, maxlen - 1) ELSE <<x>> \o q

\* the types of the messages the server sends and the control message of the
\* web page
OverlayMsgs == {"hello", "kill", "death", "suicide", "hostility", "info", "close_overlay"}
\* elif data.get('type') in ('kill', 'death', 'suicide')
IsKillMessage(type) == type \in {"kill", "death", "suicide"}
\* messages received by the overlay in one run
MaxOverlayMsgs == MAX_KILLS_DISPLAY + 2
\* two steps of 16 s take an entry past its 30 s, one step does not
OverlayTicks == {16}

\* add_kill: KillEntry(text, color, time.time()) put at the left end; seq is
\* the number of the message among those received
add_kill(q, type, seq) ==
  appendleft(q, [evt |-> type, timestamp |-> now, seq |-> seq], MAX_KILLS_DISPLAY)

\* websockets.connect(WS_URL) succeeded
OverlayConnect ==
  /\ overlay.running /\ ~overlay.connected
  /\ overlay' = [overlay EXCEPT !.connected = TRUE]
  /\ UNCHANGED <<tailVars, line_q, now, ticks, corrVars, wsVars, pl, handled, bcast,
                 cfgVars, kills>>

\* the connection failed or ended: connected = False, retry after 2 s
OverlayDisconnect ==
  /\ overlay.running /\ overlay.connected
  /\ overlay' = [overlay EXCEPT !.connected = FALSE]
  /\ UNCHANGED <<tailVars, line_q, now, ticks, corrVars, wsVars, pl, handled, bcast,
                 cfgVars, kills>>

\* one message of 'async for message in ws': hello sets the player name, a
\* kill, death or suicide goes to add_kill, close_overlay quits the process,
\* any other type is ignored
OverlayMessage(M) ==
  /\ overlay.running /\ overlay.connected
  /\ overlay.received < MaxOverlayMsgs
  /\ \E type \in M :
       /\ overlay' = [overlay EXCEPT !.received = @ + 1, !.last = type,
                        !.added = IF IsKillMessage(type) THEN @ + 1 ELSE @,
                        !.player_name = IF type = "hello" THEN "Alice" ELSE @,
                        !.running = IF type = "close_overlay" THEN FALSE ELSE @]
       /\ kills' = IF IsKillMessage(type)
                   THEN add_kill(kills, type, overlay.received + 1)
                   ELSE kills
  /\ UNCHANGED <<tailVars, line_q, now, ticks, corrVars, wsVars, pl, handled, bcast,
                 cfgVars>>

\* _update_display starts: running is tested and time.time() is read
UpdateBegin ==
  /\ overlay.running /\ overlay.pc = "idle"
  /\ overlay' = [overlay EXCEPT !.pc = "while", !.current_time = now]
  /\ UNCHANGED <<tailVars, line_q, now, ticks, corrVars, wsVars, pl, handled, bcast,
                 cfgVars, kills>>

\* while self.kills and (current_time - self.kills[-1].timestamp) > 30
Expired(q, current_time) ==
  q # <<>> /\ current_time - q[Len(q)].timestamp > KILL_MAX_AGE

\* the test of the while loop; when it fails the canvas is drawn and the
\* next refresh is scheduled
UpdateTest ==
  /\ overlay.running /\ overlay.pc = "while"
  /\ overlay' = [overlay EXCEPT
                   !.pc = IF Expired(kills, overlay.current_time) THEN "pop" ELSE "idle"]
  /\ UNCHANGED <<tailVars, line_q, now, ticks, corrVars, wsVars, pl, handled, bcast,
                 cfgVars, kills>>

\* self.kills.pop(): the entry at the right end, whichever it is by now; an
\* empty deque raises IndexError and the refresh is not scheduled again
UpdatePop ==
  /\ overlay.running /\ overlay.pc = "pop"
  /\ IF kills = <<>>
     THEN /\ overlay' = [overlay EXCEPT !.pc = "raised"]
          /\ kills' = kills
     ELSE /\ overlay' = [overlay EXCEPT !.pc = "while"]
          /\ kills' = SubSeq(kills, 1, Len(kills) - 1)
  /\ UNCHANGED <<tailVars, line_q, now, ticks, corrVars, wsVars, pl, handled, bcast,
                 cfgVars>>

\* the websocket thread and the Tk thread of the overlay, and the clock
NextOverlay ==
  \/ OverlayConnect
  \/ OverlayDisconnect
  \/ OverlayMessage(OverlayMsgs)
  \/ UpdateBegin
  \/ UpdateTest
  \/ UpdatePop
  \/ Tick(OverlayTicks)
SpecOverlay == Init /\ [][NextOverlay]_vars

NewestFirst(q) ==
  \A i, j \in 1..Len(q) :
    i < j => q[i].seq > q[j].seq /\ q[i].timestamp >= q[j].timestamp
\* a message was handled in this step
Received == overlay'.received # overlay.received
\* a refresh ended in this step: the while loop is left and the canvas drawn
Refreshed == overlay.pc = "while" /\ overlay'.pc = "idle"

\* C39: the overlay's list never holds more than MAX_KILLS_DISPLAY entries,
\* its entries are in the order of arrival with the newest first, each one
\* made from a kill, death or suicide message; a message of one of these
\* types puts one entry at the head of the list and a message of any other
\* type (hello, hostility, info, close_overlay) leaves the list as it is; an
\* entry enters the list by such a message only; and when a refresh ends the
\* list holds no entry more than 30 s older than the time the refresh read.
C39_OverlayList ==
  /\ [](/\ Len(kills) <= MAX_KILLS_DISPLAY
        /\ NewestFirst(kills)
        /\ \A i \in 1..Len(kills) : IsKillMessage(kills[i].evt)
        /\ overlay.pc # "raised")
  /\ [][/\ Received
           => IF overlay'.last \in {"kill", "death", "suicide"}
              THEN /\ kills' # <<>>
                   /\ kills'[1] = [evt |-> overlay'.last, timestamp |-> now,
                                    seq |-> overlay'.received]
                   /\ \A i \in 2..Len(kills') : kills'[i] = kills[i - 1]
              ELSE kills' = kills
        /\ (\E i \in 1..Len(kills') : \A j \in 1..Len(kills) : kills'[i] # kills[j])
           => Received /\ overlay'.last \in {"kill", "death", "suicide"}
        /\ Refreshed
           => \A i \in 1..Len(kills') :
                overlay.current_time - kills'[i].timestamp <= KILL_MAX_AGE]_vars

\* three entries were added to a list of two places, the message after them
\* was a hostility, and a refresh at 32 s has ended: the entry of 0 s is
\* gone and the entry of 16 s is shown
C39_Witness ==
  /\ overlay.added = MAX_KILLS_DISPLAY + 1
  /\ overlay.last = "hostility"
  /\ overlay.pc = "idle" /\ overlay.current_time = 32
  /\ Len(kills) = 1 /\ kills[1].timestamp = 16
====
